---- MODULE Spec2Model ----
(***************************************************************************)
(* BetoCQ D2D performance test base                                        *)
(* (tests/bettertogether/betocq/d2d_performance_test_base.py).             *)
(*                                                                         *)
(* One D2dPerformanceTestBase instance runs one scenario: the runner calls *)
(* setup_test, the test body (_test_connection_medium_performance) and     *)
(* teardown_test once per iteration, and _summary_test_results at the end. *)
(* The body is split at its blocking device calls; a call that raises      *)
(* leaves the body at once and the runner goes on to teardown_test.        *)
(***************************************************************************)
EXTENDS Integers, Sequences, FiniteSets, TLC

VARIABLES
    pc,                              \* position of the test thread
    scenario,                        \* arguments and flags of the test class
    performance_test_iterations,
    _current_test_result,
    _prior_bt_nc_fail_reason,
    _active_nc_fail_reason,
    _finished_test_iteration,
    _use_prior_bt,
    _test_results,
    _throughout_benchmark_kbyte_per_sec,
    prior_bt_snippet,                \* local of the body: None or a wrapper
    active_snippet,                  \* local of the body: None or a wrapper
    stage_log,                       \* what the current iteration has done
    iteration_logs,                  \* stage_log of every finished iteration
    summary,                         \* outcome of _summary_test_results
    _performance_test_metrics,
    series,                          \* the series handed to a statistics function
    stats,                           \* the TestResultStats it returned
    benchmark_inputs,                \* what a benchmark computation read
    benchmark_result,                \* what it logged and returned
    iperf,                           \* one call of run_iperf_test
    recording                        \* the screen recordings of a test class

vars == << pc, scenario, performance_test_iterations, _current_test_result,
           _prior_bt_nc_fail_reason, _active_nc_fail_reason,
           _finished_test_iteration, _use_prior_bt, _test_results,
           _throughout_benchmark_kbyte_per_sec, prior_bt_snippet,
           active_snippet, stage_log, iteration_logs, summary,
           _performance_test_metrics, series, stats, benchmark_inputs,
           benchmark_result, iperf, recording >>

\* the variables of the statistics and benchmark computations on their own
calc_vars == << series, stats, benchmark_inputs, benchmark_result, iperf,
               recording >>

----------------------------------------------------------------------------
(* Bounds of the model *)

MaxIterations == 2            \* iterations of one run of the orchestrator
MaxSummaryIterations == 10    \* iterations of the verdict specification
MaxDeclaredStreams == 2       \* largest max_num_streams a device declares
MaxSeriesLen == 5             \* longest series handed to a statistics function

----------------------------------------------------------------------------
(* nc_constants *)

None == "None"

SUCCESS == "SUCCESS"
UNINITIALIZED == "UNINITIALIZED"
SOURCE_WIFI_CONNECTION == "SOURCE_WIFI_CONNECTION"
TARGET_WIFI_CONNECTION == "TARGET_WIFI_CONNECTION"
WIFI_MEDIUM_UPGRADE == "WIFI_MEDIUM_UPGRADE"
FILE_TRANSFER_FAIL == "FILE_TRANSFER_FAIL"
FILE_TRANSFER_THROUGHPUT_LOW == "FILE_TRANSFER_THROUGHPUT_LOW"
SOURCE_START_DISCOVERY == "SOURCE_START_DISCOVERY"

SingleTestFailureReason ==
    { SUCCESS, UNINITIALIZED, SOURCE_WIFI_CONNECTION, TARGET_WIFI_CONNECTION,
      WIFI_MEDIUM_UPGRADE, FILE_TRANSFER_FAIL, FILE_TRANSFER_THROUGHPUT_LOW,
      SOURCE_START_DISCOVERY }

\* NearbyConnectionMedium: the medium a session ends up on
WIFI_LAN == "WIFI_LAN"
WIFI_HOTSPOT == "WIFI_HOTSPOT"
WIFI_DIRECT == "WIFI_DIRECT"
BLUETOOTH == "BLUETOOTH"
NearbyConnectionMedium == { WIFI_LAN, WIFI_HOTSPOT, WIFI_DIRECT, BLUETOOTH }

UNSET_THROUGHPUT_KBPS == -1
UNSET_LATENCY == -1

MAX_PHY_RATE_PER_STREAM_AC_80_MBPS == 433
MAX_PHY_RATE_PER_STREAM_AC_40_MBPS == 200
MAX_PHY_RATE_PER_STREAM_N_20_MBPS == 72
\* ratios and multipliers are fractions of 100
MAX_PHY_RATE_TO_MIN_THROUGHPUT_RATIO_5G == 37
MAX_PHY_RATE_TO_MIN_THROUGHPUT_RATIO_2G == 10
MCC_THROUGHPUT_MULTIPLIER == 25
WIFI_HOTSPOT_THROUGHPUT_MULTIPLIER == 40
WIFI_LAN_THROUGHPUT_MAX_MBPS == 20
SUCCESS_RATE_TARGET == 80
PERCENTILE_50_FACTOR == 50
\* decimal places of a reported latency, in seconds
LATENCY_PRECISION_DIGITS == 1
PERCENT == 100

_INVALID_FREQ == -1
_INVALID_MAX_LINK_SPEED == -1
_BITS_PER_BYTE == 8

Min(a, b) == IF a <= b THEN a ELSE b

\* int(x * p) for a multiplier p given in hundredths and x >= 0: int() truncates
IntOfPercent(x, p) == (x * p) \div PERCENT

\* int(rate * ratio / _BITS_PER_BYTE) for a ratio given in hundredths
IntOfRatioPerByte(rate, ratio) == (rate * ratio) \div (PERCENT * _BITS_PER_BYTE)

\* NearbyMedium: the medium a test asks for
BT_ONLY == "BT_ONLY"
UPGRADE_TO_ALL_WIFI == "UPGRADE_TO_ALL_WIFI"
UPGRADE_TO_WIFIDIRECT == "UPGRADE_TO_WIFIDIRECT"

is_high_quality_medium(medium) == medium # BT_ONLY

\* ConnectionSetupQualityInfo()
ConnectionSetupQualityInfo ==
    [ discovery_latency |-> UNSET_LATENCY,
      connection_latency |-> UNSET_LATENCY,
      medium_upgrade_latency |-> UNSET_LATENCY,
      upgrade_medium |-> None,
      medium_upgrade_expected |-> FALSE ]

\* the parts ''.join() puts together in a result message
Message(prefix, name, sep, tip) ==
    [ prefix |-> prefix, name |-> name, sep |-> sep, tip |-> tip ]

EmptyMessage == Message("", "", "", "")

\* SingleTestResult()
SingleTestResult ==
    [ test_iteration |-> 0,
      is_failed_with_prior_bt |-> FALSE,
      failure_reason |-> UNINITIALIZED,
      result_message |-> EmptyMessage,
      prior_nc_setup_quality_info |-> ConnectionSetupQualityInfo,
      file_transfer_nc_setup_quality_info |-> ConnectionSetupQualityInfo,
      file_transfer_throughput_kbps |-> UNSET_THROUGHPUT_KBPS,
      discoverer_sta_expected |-> FALSE,
      discoverer_sta_latency |-> UNSET_LATENCY,
      advertiser_wifi_expected |-> FALSE,
      advertiser_sta_latency |-> UNSET_LATENCY ]

----------------------------------------------------------------------------
(* Inputs: what the devices and the sessions can answer *)

MeasuredLatency == 1

\* device capabilities (attributes of the AndroidDevice controllers)
Device2x2 ==
    [ max_num_streams |-> 2, max_num_streams_dbs |-> 1,
      max_phy_rate_2g_mbps |-> 144, max_phy_rate_5g_mbps |-> 866 ]
Device1x1 ==
    [ max_num_streams |-> 1, max_num_streams_dbs |-> 1,
      max_phy_rate_2g_mbps |-> 72, max_phy_rate_5g_mbps |-> 433 ]
Devices == { Device2x2, Device1x1 }

\* wifiGetConnectionInfo() of the advertiser: not associated (the keys are
\* missing and the defaults are used), on a 5 GHz AP with a 40 MHz link, on
\* a 5 GHz AP with an 80 MHz link
StaConnectionInfos ==
    { [ mFrequency |-> _INVALID_FREQ,
        mMaxSupportedTxLinkSpeed |-> _INVALID_MAX_LINK_SPEED ],
      [ mFrequency |-> 5180, mMaxSupportedTxLinkSpeed |-> 400 ],
      [ mFrequency |-> 5180, mMaxSupportedTxLinkSpeed |-> 866 ] }

\* throughputs transfer_file can report, in KBps
TransferThroughputs == { 1023, 1024, 20480 }

\* reasons a session reports when start_nearby_connection raises
ConnectionFailureReasons == { SOURCE_START_DISCOVERY, WIFI_MEDIUM_UPGRADE }

\* the flags a test class sets in its constructor, and the medium it asks for
ScenarioFlags ==
    { [ is_2g_d2d_wifi_medium |-> TRUE, is_mcc |-> FALSE, is_dbs_mode |-> FALSE,
        upgrade_medium_under_test |-> UPGRADE_TO_ALL_WIFI ],
      [ is_2g_d2d_wifi_medium |-> FALSE, is_mcc |-> FALSE, is_dbs_mode |-> FALSE,
        upgrade_medium_under_test |-> UPGRADE_TO_ALL_WIFI ],
      [ is_2g_d2d_wifi_medium |-> FALSE, is_mcc |-> TRUE, is_dbs_mode |-> TRUE,
        upgrade_medium_under_test |-> UPGRADE_TO_WIFIDIRECT ] }

\* the mediums a session asked for `medium` can end up on
NegotiatedMediums(medium) ==
    CASE medium = BT_ONLY -> { BLUETOOTH }
      [] medium = UPGRADE_TO_WIFIDIRECT -> { WIFI_DIRECT }
      [] OTHER -> { WIFI_LAN, WIFI_HOTSPOT, WIFI_DIRECT }

----------------------------------------------------------------------------
(* _get_throughout_benchmark *)

\* a stream count that takes the DBS limit on either band
MaxNumStreamsEitherBand(discoverer, advertiser, is_2g_d2d_wifi_medium, is_dbs_mode) ==
    IF is_dbs_mode
    THEN advertiser.max_num_streams_dbs
    ELSE Min(discoverer.max_num_streams, advertiser.max_num_streams)

\* max_num_streams as the branch of the band ends up using it: the smaller of
\* the two declared counts, replaced in the 5G branch by the advertiser's DBS
\* limit when the test runs in DBS mode
MaxNumStreams(discoverer, advertiser, is_2g_d2d_wifi_medium, is_dbs_mode) ==
    IF ~is_2g_d2d_wifi_medium /\ is_dbs_mode
    THEN advertiser.max_num_streams_dbs
    ELSE Min(discoverer.max_num_streams, advertiser.max_num_streams)

\* a test of the STA link that takes an unknown link speed for a narrow one
IsStaBelowAc80OrUnknown(sta_frequency, sta_max_link_speed_mbps, max_phy_rate_ac80) ==
    /\ sta_frequency > 5000
    /\ sta_max_link_speed_mbps < max_phy_rate_ac80

\* if STA is connected to 5G AP with channel BW < 80
IsStaBelowAc80(sta_frequency, sta_max_link_speed_mbps, max_phy_rate_ac80) ==
    /\ sta_frequency > 5000
    /\ sta_max_link_speed_mbps > 0
    /\ sta_max_link_speed_mbps < max_phy_rate_ac80

\* max_phy_rate_mbps, the "max D2D phy rate (Mb/s)" the function logs
MaxPhyRateMbps(discoverer, advertiser, sta_frequency, sta_max_link_speed_mbps, is_2g_d2d_wifi_medium, is_dbs_mode) ==
    LET streams == MaxNumStreams(discoverer, advertiser,
                                 is_2g_d2d_wifi_medium, is_dbs_mode)
        max_phy_rate_ac80 == streams * MAX_PHY_RATE_PER_STREAM_AC_80_MBPS
        phy_ac80 == Min(Min(discoverer.max_phy_rate_5g_mbps,
                            advertiser.max_phy_rate_5g_mbps),
                        max_phy_rate_ac80)
    IN  IF is_2g_d2d_wifi_medium
        THEN Min(Min(discoverer.max_phy_rate_2g_mbps,
                     advertiser.max_phy_rate_2g_mbps),
                 streams * MAX_PHY_RATE_PER_STREAM_N_20_MBPS)
        ELSE IF IsStaBelowAc80(sta_frequency, sta_max_link_speed_mbps,
                               max_phy_rate_ac80)
        THEN Min(phy_ac80, streams * MAX_PHY_RATE_PER_STREAM_AC_40_MBPS)
        ELSE phy_ac80

\* if self._is_mcc: int(min_throughput * MCC_THROUGHPUT_MULTIPLIER)
ApplyMccMultiplier(min_throughput, is_mcc) ==
    IF is_mcc THEN IntOfPercent(min_throughput, MCC_THROUGHPUT_MULTIPLIER)
    ELSE min_throughput

\* if upgrade_medium == WIFI_HOTSPOT: int(min_throughput * multiplier)
ApplyHotspotMultiplier(min_throughput, upgrade_medium) ==
    IF upgrade_medium = WIFI_HOTSPOT
    THEN IntOfPercent(min_throughput, WIFI_HOTSPOT_THROUGHPUT_MULTIPLIER)
    ELSE min_throughput

\* no ceiling for Wi-Fi LAN
ApplyWifiLanCapNever(min_throughput, upgrade_medium) == min_throughput

\* if upgrade_medium == WIFI_LAN: min(min_throughput, WIFI_LAN_THROUGHPUT_MAX_MBPS)
ApplyWifiLanCap(min_throughput, upgrade_medium) ==
    IF upgrade_medium = WIFI_LAN
    THEN Min(min_throughput, WIFI_LAN_THROUGHPUT_MAX_MBPS)
    ELSE min_throughput

\* the scenario adjustments made on either band
ApplyScenarioAdjustmentsEitherBand(min_throughput, is_2g_d2d_wifi_medium, is_mcc, upgrade_medium) ==
    ApplyWifiLanCap(
        ApplyHotspotMultiplier(
            ApplyMccMultiplier(min_throughput, is_mcc), upgrade_medium),
        upgrade_medium)

\* the scenario adjustments, which the code makes in the 5G branch only
ApplyScenarioAdjustments(min_throughput, is_2g_d2d_wifi_medium, is_mcc, upgrade_medium) ==
    IF is_2g_d2d_wifi_medium THEN min_throughput
    ELSE ApplyWifiLanCap(
             ApplyHotspotMultiplier(
                 ApplyMccMultiplier(min_throughput, is_mcc), upgrade_medium),
             upgrade_medium)

\* min_throughput_mbyte_per_sec, the "min D2D throughput (MB/s)" it logs
MinThroughputMbytePerSec(discoverer, advertiser, sta_frequency, sta_max_link_speed_mbps, is_2g_d2d_wifi_medium, is_dbs_mode, is_mcc, upgrade_medium) ==
    LET max_phy_rate_mbps ==
            MaxPhyRateMbps(discoverer, advertiser, sta_frequency,
                           sta_max_link_speed_mbps, is_2g_d2d_wifi_medium,
                           is_dbs_mode)
        ratio == IF is_2g_d2d_wifi_medium
                 THEN MAX_PHY_RATE_TO_MIN_THROUGHPUT_RATIO_2G
                 ELSE MAX_PHY_RATE_TO_MIN_THROUGHPUT_RATIO_5G
    IN  ApplyScenarioAdjustments(IntOfRatioPerByte(max_phy_rate_mbps, ratio),
                                 is_2g_d2d_wifi_medium, is_mcc, upgrade_medium)

\* the benchmark in KBps
_get_throughout_benchmark(discoverer, advertiser, sta_frequency, sta_max_link_speed_mbps, is_2g_d2d_wifi_medium, is_dbs_mode, is_mcc, upgrade_medium) ==
    1024 * MinThroughputMbytePerSec(discoverer, advertiser, sta_frequency,
                                    sta_max_link_speed_mbps,
                                    is_2g_d2d_wifi_medium, is_dbs_mode, is_mcc,
                                    upgrade_medium)

----------------------------------------------------------------------------
(* Result messages *)

COMMON_TRIAGE_TIP == "COMMON_TRIAGE_TIP"
MEDIUM_UPGRADE_FAIL_TRIAGE_TIPS == "MEDIUM_UPGRADE_FAIL_TRIAGE_TIPS"
FILE_TRANSFER_FAILURE_TIP == "_get_file_transfer_failure_tip"
THROUGHPUT_LOW_TIP == "_get_throughput_low_tip"

\* a message that reads only the active reason and takes a reason that was
\* never set for a pass
_get_current_test_result_message_active_only(use_prior_bt, prior_bt_nc_fail_reason, active_nc_fail_reason) ==
    IF active_nc_fail_reason \in { SUCCESS, UNINITIALIZED }
    THEN Message("PASS", "", "", "")
    ELSE Message("FAIL: ", active_nc_fail_reason, " - ", COMMON_TRIAGE_TIP)

_get_current_test_result_message(use_prior_bt, prior_bt_nc_fail_reason, active_nc_fail_reason) ==
    IF use_prior_bt /\ prior_bt_nc_fail_reason # SUCCESS
    THEN Message("FAIL (The prior BT connection): ", prior_bt_nc_fail_reason,
                 " - ", COMMON_TRIAGE_TIP)
    ELSE IF active_nc_fail_reason = SUCCESS
    THEN Message("PASS", "", "", "")
    ELSE IF active_nc_fail_reason = SOURCE_WIFI_CONNECTION
    THEN Message("FAIL: ", active_nc_fail_reason, " - ", COMMON_TRIAGE_TIP)
    ELSE IF active_nc_fail_reason = WIFI_MEDIUM_UPGRADE
    THEN Message("FAIL: ", active_nc_fail_reason, " - ",
                 MEDIUM_UPGRADE_FAIL_TRIAGE_TIPS)
    ELSE IF active_nc_fail_reason = FILE_TRANSFER_FAIL
    THEN Message("", active_nc_fail_reason, " - ", FILE_TRANSFER_FAILURE_TIP)
    ELSE IF active_nc_fail_reason = FILE_TRANSFER_THROUGHPUT_LOW
    THEN Message("", active_nc_fail_reason, " - ", THROUGHPUT_LOW_TIP)
    ELSE Message("", active_nc_fail_reason, " - ", COMMON_TRIAGE_TIP)

----------------------------------------------------------------------------
(* The connection session (nearby_connection_wrapper.NearbyConnectionWrapper) *)

\* a local that holds no session yet (None)
NoSnippet ==
    [ created |-> FALSE,
      test_failure_reason |-> UNINITIALIZED,
      connection_quality_info |-> ConnectionSetupQualityInfo,
      disconnected |-> FALSE ]

\* NearbyConnectionWrapper(...)
NearbyConnectionWrapper == [ NoSnippet EXCEPT !.created = TRUE ]

\* start_nearby_connection: it returns with the session connected, or it
\* raises with the reason of the step that failed
start_nearby_connection(snippet, upgrade_medium) ==
    { [ raised |-> FALSE,
        snippet |->
          [ snippet EXCEPT
              !.test_failure_reason = SUCCESS,
              !.connection_quality_info =
                  [ discovery_latency |-> MeasuredLatency,
                    connection_latency |-> MeasuredLatency,
                    medium_upgrade_latency |->
                        IF is_high_quality_medium(upgrade_medium)
                        THEN MeasuredLatency ELSE UNSET_LATENCY,
                    upgrade_medium |-> m,
                    medium_upgrade_expected |->
                        is_high_quality_medium(upgrade_medium) ] ] ]
      : m \in NegotiatedMediums(upgrade_medium) }
    \cup
    { [ raised |-> TRUE,
        snippet |->
          [ snippet EXCEPT
              !.test_failure_reason = r,
              !.connection_quality_info =
                  [ discovery_latency |->
                        IF r = SOURCE_START_DISCOVERY
                        THEN UNSET_LATENCY ELSE MeasuredLatency,
                    connection_latency |->
                        IF r = SOURCE_START_DISCOVERY
                        THEN UNSET_LATENCY ELSE MeasuredLatency,
                    medium_upgrade_latency |-> UNSET_LATENCY,
                    upgrade_medium |-> None,
                    medium_upgrade_expected |->
                        is_high_quality_medium(upgrade_medium) ] ] ]
      : r \in IF is_high_quality_medium(upgrade_medium)
              THEN ConnectionFailureReasons
              ELSE { SOURCE_START_DISCOVERY } }

\* transfer_file: it returns the measured throughput, or it raises
transfer_file(snippet) ==
    { [ raised |-> FALSE, throughput |-> t,
        snippet |-> [ snippet EXCEPT !.test_failure_reason = SUCCESS ] ]
      : t \in TransferThroughputs }
    \cup
    { [ raised |-> TRUE, throughput |-> UNSET_THROUGHPUT_KBPS,
        snippet |->
          [ snippet EXCEPT !.test_failure_reason = FILE_TRANSFER_FAIL ] ] }

\* disconnect_endpoint
disconnect_endpoint(snippet) == [ snippet EXCEPT !.disconnected = TRUE ]

----------------------------------------------------------------------------
(* What the current iteration has done so far (observation only) *)

NoBenchmark == -1

NewStageLog ==
    [ src_wifi |-> "not_started", prior_bt |-> "not_started",
      tgt_wifi |-> "not_started", primary |-> "not_started",
      transfer |-> "not_started",
      threshold |-> "not_evaluated",     \* or "met", "low"
      compared_throughput |-> UNSET_THROUGHPUT_KBPS,
      compared_benchmark |-> NoBenchmark,
      sta_frequency |-> _INVALID_FREQ,
      sta_max_link_speed_mbps |-> _INVALID_MAX_LINK_SPEED,
      prior_reason |-> UNINITIALIZED,    \* the two reasons at teardown_test
      active_reason |-> UNINITIALIZED,
      use_prior_bt_at_setup |-> FALSE,
      prior_created |-> FALSE, active_created |-> FALSE,
      prior_disconnected |-> FALSE, active_disconnected |-> FALSE,
      raised |-> FALSE,
      started |-> << >> ]

NoSummary ==
    [ done |-> FALSE, success_count |-> 0, passed |-> FALSE,
      final_result_message |-> [ prefix |-> "", count |-> 0 ],
      recorded |-> FALSE, test_failure |-> FALSE, events |-> << >>,
      failed_iteration_messages |-> << >> ]

----------------------------------------------------------------------------
(* __init__ *)

\* NcPerformanceTestMetrics()
NcPerformanceTestMetrics ==
    [ prior_bt_discovery_latencies |-> << >>,
      prior_bt_connection_latencies |-> << >>,
      file_transfer_discovery_latencies |-> << >>,
      file_transfer_connection_latencies |-> << >>,
      upgraded_wifi_transfer_mediums |-> << >>,
      file_transfer_throughputs_kbps |-> << >>,
      discoverer_wifi_sta_latencies |-> << >>,
      advertiser_wifi_sta_latencies |-> << >>,
      medium_upgrade_latencies |-> << >> ]

\* TestResultStats(success_count, min_val, median_val, max_val)
TestResultStats(success_count, min_val, median_val, max_val) ==
    [ success_count |-> success_count, min_val |-> min_val,
      median_val |-> median_val, max_val |-> max_val ]

\* no statistics function and no benchmark computation has run
NoSeries == [ kind |-> "none", values |-> << >> ]

NoStats == [ called |-> FALSE, result |-> TestResultStats(0, 0, 0, 0) ]

NoBenchmarkInputs ==
    [ discoverer |-> Device2x2, advertiser |-> Device2x2,
      sta_frequency |-> _INVALID_FREQ,
      sta_max_link_speed_mbps |-> _INVALID_MAX_LINK_SPEED,
      is_2g_d2d_wifi_medium |-> FALSE, is_dbs_mode |-> FALSE,
      is_mcc |-> FALSE, upgrade_medium |-> None ]

NoBenchmarkResult ==
    [ called |-> FALSE, max_num_streams |-> 0, max_phy_rate_mbps |-> 0,
      min_throughput_mbyte_per_sec |-> 0, benchmark |-> NoBenchmark ]

\* IPerfServerOnDevice.__init__: no subprocess yet, not started
NewIPerfServerOnDevice ==
    [ constructed |-> TRUE, iperf_process |-> "None", started |-> FALSE ]

\* before run_iperf_test has constructed its server object
NoServer ==
    [ constructed |-> FALSE, iperf_process |-> "None", started |-> FALSE ]

\* run_iperf_test before it is called; speed_kbyte_sec is the local of the
\* same name, result_list and success what run_iperf_client handed back
NoIperf ==
    [ pc |-> "idle", group_owner_addr_len |-> 0, client_arg |-> "",
      server |-> NoServer, client_raised |-> FALSE, success |-> FALSE,
      result_list |-> << >>, speed_kbyte_sec |-> -1, return_value |-> 0 ]

\* VideoRecording.__init__: thread is None.  "abandoned" counts the threads an
\* earlier enable_screen_recording started and this object no longer refers
\* to although they still run; thread_at_pull is the state the thread was in
\* when pull_recording_file last ran
NewVideoRecording ==
    [ thread |-> "None", abandoned |-> 0, thread_at_pull |-> "not pulled" ]

\* a test class after setup_class: two VideoRecording objects, no test run
NoRecording ==
    [ pc |-> "idle", device |-> "hu", tests |-> 0, hu |-> NewVideoRecording,
      target |-> NewVideoRecording ]

CalcIdle ==
    /\ series = NoSeries
    /\ stats = NoStats
    /\ benchmark_inputs = NoBenchmarkInputs
    /\ benchmark_result = NoBenchmarkResult
    /\ iperf = NoIperf
    /\ recording = NoRecording

Scenarios ==
    [ wifi_ssid : BOOLEAN,                    \* a non-empty SSID is passed
      requires_bt_multiplex : BOOLEAN,        \* test_parameters
      force_disable_bt_multiplex : BOOLEAN,
      flags : ScenarioFlags,
      discoverer : { Device2x2 },
      advertiser : Devices ]

Init ==
    /\ pc = "idle"
    /\ scenario \in Scenarios
    /\ performance_test_iterations = MaxIterations
    /\ _current_test_result = SingleTestResult
    /\ _prior_bt_nc_fail_reason = UNINITIALIZED
    /\ _active_nc_fail_reason = UNINITIALIZED
    /\ _finished_test_iteration = 0
    /\ _use_prior_bt = FALSE
    /\ _test_results = << >>
    /\ _throughout_benchmark_kbyte_per_sec = NoBenchmark
    /\ prior_bt_snippet = NoSnippet
    /\ active_snippet = NoSnippet
    /\ stage_log = NewStageLog
    /\ iteration_logs = << >>
    /\ summary = NoSummary
    /\ _performance_test_metrics = NcPerformanceTestMetrics
    /\ CalcIdle

----------------------------------------------------------------------------
(* setup_test *)

SetupTest ==
    /\ pc = "idle"
    /\ _finished_test_iteration < performance_test_iterations
    /\ _current_test_result' = SingleTestResult
    /\ _prior_bt_nc_fail_reason' = UNINITIALIZED
    /\ _active_nc_fail_reason' = UNINITIALIZED
    /\ stage_log' = [ NewStageLog EXCEPT !.use_prior_bt_at_setup = _use_prior_bt ]
    /\ prior_bt_snippet' = NoSnippet
    /\ active_snippet' = NoSnippet
    /\ pc' = "src_wifi"
    /\ UNCHANGED << _performance_test_metrics, calc_vars >>
    /\ UNCHANGED << scenario, performance_test_iterations,
                    _finished_test_iteration, _use_prior_bt, _test_results,
                    _throughout_benchmark_kbyte_per_sec, iteration_logs,
                    summary >>

----------------------------------------------------------------------------
(* _test_connection_medium_performance *)

Started(stage) == [ stage_log EXCEPT !.started = Append(@, stage) ]

\* try: start_nearby_connection() finally: record -- nothing is caught, so a
\* raising call leaves the body
AfterPriorBtSwallowed(raised) == "tgt_wifi"

AfterPriorBt(raised) == IF raised THEN "teardown_test" ELSE "tgt_wifi"

\* a primary connection whose failure is swallowed
AfterPrimaryConnectSwallowed(raised) == "transfer"

AfterPrimaryConnect(raised) == IF raised THEN "teardown_test" ELSE "transfer"

\* the end of the transfer's finally block: the pending exception of
\* transfer_file or the one of asserts.fail goes on, else steps 6 and 7 run
AfterTransferAlwaysDisconnect(raised) == "disconnect"

AfterTransfer(raised) == IF raised THEN "teardown_test" ELSE "disconnect"

\* the benchmark is looked at only when the session reports SUCCESS
ShouldCheckThroughputAlways(active_nc_fail_reason) == TRUE

ShouldCheckThroughput(active_nc_fail_reason) == active_nc_fail_reason = SUCCESS

IsThroughputLowOrEqual(file_transfer_throughput_kbps, benchmark) ==
    file_transfer_throughput_kbps <= benchmark

IsThroughputLow(file_transfer_throughput_kbps, benchmark) ==
    file_transfer_throughput_kbps < benchmark

\* 1. discoverer connect to wifi STA/AP
SourceWifi ==
    /\ pc = "src_wifi"
    /\ IF scenario.wifi_ssid
       THEN \E connected \in BOOLEAN :
              IF connected
              THEN /\ _active_nc_fail_reason' = SUCCESS
                   /\ _current_test_result' =
                        [ SingleTestResult EXCEPT
                            !.discoverer_sta_expected = TRUE,
                            !.discoverer_sta_latency = MeasuredLatency ]
                   /\ stage_log' =
                        [ Started("src_wifi") EXCEPT !.src_wifi = "returned" ]
                   /\ pc' = "prior_bt"
              ELSE /\ _active_nc_fail_reason' = SOURCE_WIFI_CONNECTION
                   /\ _current_test_result' = SingleTestResult
                   /\ stage_log' =
                        [ Started("src_wifi") EXCEPT !.src_wifi = "raised",
                                                     !.raised = TRUE ]
                   /\ pc' = "teardown_test"
       ELSE /\ _current_test_result' = SingleTestResult
            /\ stage_log' = [ stage_log EXCEPT !.src_wifi = "skipped" ]
            /\ pc' = "prior_bt"
            /\ UNCHANGED _active_nc_fail_reason
    /\ UNCHANGED << _performance_test_metrics, calc_vars >>
    /\ UNCHANGED << scenario, performance_test_iterations,
                    _prior_bt_nc_fail_reason, _finished_test_iteration,
                    _use_prior_bt, _test_results,
                    _throughout_benchmark_kbyte_per_sec, prior_bt_snippet,
                    active_snippet, iteration_logs, summary >>

\* 2. set up BT connection if required
PriorBt ==
    /\ pc = "prior_bt"
    /\ IF ~scenario.force_disable_bt_multiplex /\ scenario.requires_bt_multiplex
       THEN \E out \in start_nearby_connection(NearbyConnectionWrapper, BT_ONLY) :
              /\ _use_prior_bt' = TRUE
              /\ prior_bt_snippet' = out.snippet
              /\ _prior_bt_nc_fail_reason' = out.snippet.test_failure_reason
              /\ _current_test_result' =
                   [ _current_test_result EXCEPT
                       !.prior_nc_setup_quality_info =
                           out.snippet.connection_quality_info ]
              /\ stage_log' =
                   [ Started("prior_bt") EXCEPT
                       !.prior_created = TRUE,
                       !.prior_bt = IF out.raised THEN "raised" ELSE "returned",
                       !.raised = out.raised ]
              /\ pc' = AfterPriorBt(out.raised)
       ELSE /\ stage_log' = [ stage_log EXCEPT !.prior_bt = "skipped" ]
            /\ pc' = "tgt_wifi"
            /\ UNCHANGED << _use_prior_bt, prior_bt_snippet,
                            _prior_bt_nc_fail_reason, _current_test_result >>
    /\ UNCHANGED << _performance_test_metrics, calc_vars >>
    /\ UNCHANGED << scenario, performance_test_iterations,
                    _active_nc_fail_reason, _finished_test_iteration,
                    _test_results, _throughout_benchmark_kbyte_per_sec,
                    active_snippet, iteration_logs, summary >>

\* 3. advertiser connect to wifi STA/AP
TargetWifi ==
    /\ pc = "tgt_wifi"
    /\ IF scenario.wifi_ssid
       THEN \E connected \in BOOLEAN :
              /\ _active_nc_fail_reason' = TARGET_WIFI_CONNECTION
              /\ IF connected
                 THEN /\ _current_test_result' =
                           [ _current_test_result EXCEPT
                               !.advertiser_wifi_expected = TRUE,
                               !.advertiser_sta_latency = MeasuredLatency ]
                      /\ stage_log' =
                           [ Started("tgt_wifi") EXCEPT !.tgt_wifi = "returned" ]
                      /\ pc' = "primary"
                 ELSE /\ stage_log' =
                           [ Started("tgt_wifi") EXCEPT !.tgt_wifi = "raised",
                                                        !.raised = TRUE ]
                      /\ pc' = "teardown_test"
                      /\ UNCHANGED _current_test_result
       ELSE /\ stage_log' = [ stage_log EXCEPT !.tgt_wifi = "skipped" ]
            /\ pc' = "primary"
            /\ UNCHANGED << _active_nc_fail_reason, _current_test_result >>
    /\ UNCHANGED << _performance_test_metrics, calc_vars >>
    /\ UNCHANGED << scenario, performance_test_iterations,
                    _prior_bt_nc_fail_reason, _finished_test_iteration,
                    _use_prior_bt, _test_results,
                    _throughout_benchmark_kbyte_per_sec, prior_bt_snippet,
                    active_snippet, iteration_logs, summary >>

\* 4. set up the D2D nearby connection
PrimaryConnect ==
    /\ pc = "primary"
    /\ \E out \in start_nearby_connection(NearbyConnectionWrapper,
                       scenario.flags.upgrade_medium_under_test) :
         /\ active_snippet' = out.snippet
         /\ _active_nc_fail_reason' = out.snippet.test_failure_reason
         /\ _current_test_result' =
              [ _current_test_result EXCEPT
                  !.file_transfer_nc_setup_quality_info =
                      out.snippet.connection_quality_info ]
         /\ stage_log' =
              [ Started("primary") EXCEPT
                  !.active_created = TRUE,
                  !.primary = IF out.raised THEN "raised" ELSE "returned",
                  !.raised = out.raised ]
         /\ pc' = AfterPrimaryConnect(out.raised)
    /\ UNCHANGED << _performance_test_metrics, calc_vars >>
    /\ UNCHANGED << scenario, performance_test_iterations,
                    _prior_bt_nc_fail_reason, _finished_test_iteration,
                    _use_prior_bt, _test_results,
                    _throughout_benchmark_kbyte_per_sec, prior_bt_snippet,
                    iteration_logs, summary >>

\* 5. transfer file through the nearby connection (the try block)
TransferFile ==
    /\ pc = "transfer"
    /\ \E out \in transfer_file(active_snippet) :
         /\ active_snippet' = out.snippet
         /\ _current_test_result' =
              IF out.raised THEN _current_test_result
              ELSE [ _current_test_result EXCEPT
                       !.file_transfer_throughput_kbps = out.throughput ]
         /\ stage_log' =
              [ Started("transfer") EXCEPT
                  !.transfer = IF out.raised THEN "raised" ELSE "returned",
                  !.raised = out.raised ]
    /\ pc' = "transfer_finally"
    /\ UNCHANGED << _performance_test_metrics, calc_vars >>
    /\ UNCHANGED << scenario, performance_test_iterations,
                    _prior_bt_nc_fail_reason, _active_nc_fail_reason,
                    _finished_test_iteration, _use_prior_bt, _test_results,
                    _throughout_benchmark_kbyte_per_sec, prior_bt_snippet,
                    iteration_logs, summary >>

\* the finally block of step 5: the threshold check
ThresholdCheck ==
    /\ pc = "transfer_finally"
    /\ IF ShouldCheckThroughput(active_snippet.test_failure_reason)
       THEN \E info \in StaConnectionInfos :
              LET sta_frequency == info.mFrequency
                  sta_max_link_speed_mbps == info.mMaxSupportedTxLinkSpeed
                  benchmark ==
                      _get_throughout_benchmark(
                          scenario.discoverer, scenario.advertiser,
                          sta_frequency, sta_max_link_speed_mbps,
                          scenario.flags.is_2g_d2d_wifi_medium,
                          scenario.flags.is_dbs_mode, scenario.flags.is_mcc,
                          _current_test_result
                              .file_transfer_nc_setup_quality_info
                              .upgrade_medium)
                  low == IsThroughputLow(
                             _current_test_result.file_transfer_throughput_kbps,
                             benchmark)
              IN  /\ _throughout_benchmark_kbyte_per_sec' = benchmark
                  /\ _active_nc_fail_reason' =
                       IF low THEN FILE_TRANSFER_THROUGHPUT_LOW
                       ELSE active_snippet.test_failure_reason
                  /\ stage_log' =
                       [ Started("threshold") EXCEPT
                           !.threshold = IF low THEN "low" ELSE "met",
                           !.compared_throughput =
                               _current_test_result.file_transfer_throughput_kbps,
                           !.compared_benchmark = benchmark,
                           !.sta_frequency = sta_frequency,
                           !.sta_max_link_speed_mbps = sta_max_link_speed_mbps,
                           !.raised = stage_log.raised \/ low ]
                  /\ pc' = AfterTransfer(stage_log.raised \/ low)
       ELSE /\ _active_nc_fail_reason' = active_snippet.test_failure_reason
            /\ pc' = AfterTransfer(stage_log.raised)
            /\ UNCHANGED << _throughout_benchmark_kbyte_per_sec, stage_log >>
    /\ UNCHANGED << _performance_test_metrics, calc_vars >>
    /\ UNCHANGED << scenario, performance_test_iterations,
                    _current_test_result, _prior_bt_nc_fail_reason,
                    _finished_test_iteration, _use_prior_bt, _test_results,
                    prior_bt_snippet, active_snippet, iteration_logs, summary >>

\* 6. disconnect prior BT connection if required
\* 7. disconnect D2D active connection
Disconnect ==
    /\ pc = "disconnect"
    /\ prior_bt_snippet' =
         IF prior_bt_snippet.created THEN disconnect_endpoint(prior_bt_snippet)
         ELSE prior_bt_snippet
    /\ active_snippet' = disconnect_endpoint(active_snippet)
    /\ stage_log' =
         [ Started("disconnect") EXCEPT
             !.prior_disconnected = prior_bt_snippet.created,
             !.active_disconnected = TRUE ]
    /\ pc' = "teardown_test"
    /\ UNCHANGED << _performance_test_metrics, calc_vars >>
    /\ UNCHANGED << scenario, performance_test_iterations,
                    _current_test_result, _prior_bt_nc_fail_reason,
                    _active_nc_fail_reason, _finished_test_iteration,
                    _use_prior_bt, _test_results,
                    _throughout_benchmark_kbyte_per_sec, iteration_logs,
                    summary >>

----------------------------------------------------------------------------
(* teardown_test *)

\* a report that takes the active reason whatever the prior BT session said
_write_current_test_report_unmasked(current_test_result, finished_test_iteration, use_prior_bt, prior_bt_nc_fail_reason, active_nc_fail_reason) ==
    [ current_test_result EXCEPT
        !.test_iteration = finished_test_iteration,
        !.failure_reason = active_nc_fail_reason,
        !.result_message =
            _get_current_test_result_message(
                use_prior_bt, prior_bt_nc_fail_reason,
                active_nc_fail_reason) ]

_write_current_test_report(current_test_result, finished_test_iteration, use_prior_bt, prior_bt_nc_fail_reason, active_nc_fail_reason) ==
    LET masked == use_prior_bt /\ prior_bt_nc_fail_reason # SUCCESS
    IN  [ current_test_result EXCEPT
            !.test_iteration = finished_test_iteration,
            !.is_failed_with_prior_bt = IF masked THEN TRUE ELSE @,
            !.failure_reason = IF masked THEN prior_bt_nc_fail_reason
                               ELSE active_nc_fail_reason,
            !.result_message =
                _get_current_test_result_message(
                    use_prior_bt, prior_bt_nc_fail_reason,
                    active_nc_fail_reason) ]

\* a collection that leaves out what a failed iteration did not measure
_collect_current_test_metrics_measured_only(metrics, current_test_result, use_prior_bt) ==
    LET quality_info == current_test_result.file_transfer_nc_setup_quality_info
        measured == current_test_result.file_transfer_throughput_kbps
                      # UNSET_THROUGHPUT_KBPS
    IN  [ metrics EXCEPT
            !.file_transfer_discovery_latencies =
                Append(@, quality_info.discovery_latency),
            !.file_transfer_connection_latencies =
                Append(@, quality_info.connection_latency),
            !.upgraded_wifi_transfer_mediums =
                Append(@, quality_info.upgrade_medium),
            !.file_transfer_throughputs_kbps =
                IF measured
                THEN Append(@, current_test_result.file_transfer_throughput_kbps)
                ELSE @,
            !.discoverer_wifi_sta_latencies =
                Append(@, current_test_result.discoverer_sta_latency),
            !.advertiser_wifi_sta_latencies =
                Append(@, current_test_result.advertiser_sta_latency) ]

_collect_current_test_metrics(metrics, current_test_result, use_prior_bt) ==
    LET prior_info == current_test_result.prior_nc_setup_quality_info
        quality_info == current_test_result.file_transfer_nc_setup_quality_info
    IN  [ metrics EXCEPT
            !.prior_bt_discovery_latencies =
                IF use_prior_bt THEN Append(@, prior_info.discovery_latency)
                ELSE @,
            !.prior_bt_connection_latencies =
                IF use_prior_bt THEN Append(@, prior_info.connection_latency)
                ELSE @,
            !.file_transfer_discovery_latencies =
                Append(@, quality_info.discovery_latency),
            !.file_transfer_connection_latencies =
                Append(@, quality_info.connection_latency),
            !.upgraded_wifi_transfer_mediums =
                Append(@, quality_info.upgrade_medium),
            !.file_transfer_throughputs_kbps =
                Append(@, current_test_result.file_transfer_throughput_kbps),
            !.discoverer_wifi_sta_latencies =
                Append(@, current_test_result.discoverer_sta_latency),
            !.advertiser_wifi_sta_latencies =
                Append(@, current_test_result.advertiser_sta_latency),
            !.medium_upgrade_latencies =
                IF quality_info.medium_upgrade_expected
                THEN Append(@, quality_info.medium_upgrade_latency)
                ELSE @ ]

TeardownTest ==
    /\ pc = "teardown_test"
    /\ LET report == _write_current_test_report(
                         _current_test_result, _finished_test_iteration,
                         _use_prior_bt, _prior_bt_nc_fail_reason,
                         _active_nc_fail_reason)
       IN  /\ _current_test_result' = report
           /\ _test_results' = Append(_test_results, report)
           /\ _performance_test_metrics' =
                _collect_current_test_metrics(_performance_test_metrics,
                                              report, _use_prior_bt)
    /\ _finished_test_iteration' = _finished_test_iteration + 1
    /\ iteration_logs' =
         Append(iteration_logs,
                [ stage_log EXCEPT
                    !.prior_reason = _prior_bt_nc_fail_reason,
                    !.active_reason = _active_nc_fail_reason ])
    /\ pc' = "idle"
    /\ UNCHANGED calc_vars
    /\ UNCHANGED << scenario, performance_test_iterations,
                    _prior_bt_nc_fail_reason, _active_nc_fail_reason,
                    _use_prior_bt, _throughout_benchmark_kbyte_per_sec,
                    prior_bt_snippet, active_snippet, stage_log, summary >>

----------------------------------------------------------------------------
(* _summary_test_results *)

RECURSIVE CountSuccess(_)
\* sum(test_result.failure_reason == SUCCESS for test_result in test_results)
CountSuccess(test_results) ==
    IF test_results = << >> THEN 0
    ELSE (IF Head(test_results).failure_reason = SUCCESS THEN 1 ELSE 0)
         + CountSuccess(Tail(test_results))

IsPassedStrict(success_count, iterations) ==
    success_count > IntOfPercent(iterations, SUCCESS_RATE_TARGET)

\* passed = success_count >= int(iterations * SUCCESS_RATE_TARGET)
IsPassed(success_count, iterations) ==
    success_count >= IntOfPercent(iterations, SUCCESS_RATE_TARGET)

\* the line '  - NA' of the failed-iteration report
NaLine == [ na |-> TRUE, test_iteration |-> -1, result_message |-> EmptyMessage ]

\* the line '  - {test_iteration}: {result_message}'
FailedIterationLine(test_result) ==
    [ na |-> FALSE, test_iteration |-> test_result.test_iteration,
      result_message |-> test_result.result_message ]

\* a report that lists every iteration
__get_failed_iteration_messages_of_all(test_results) ==
    IF test_results = << >> THEN << NaLine >>
    ELSE [ k \in 1..Len(test_results) |-> FailedIterationLine(test_results[k]) ]

__get_failed_iteration_messages(test_results) ==
    LET failed == SelectSeq(test_results,
                            LAMBDA r : r.failure_reason # SUCCESS)
        lines == [ k \in 1..Len(failed) |-> FailedIterationLine(failed[k]) ]
    IN  IF lines # << >> THEN lines ELSE << NaLine >>

\* self.record_data({... '01_test_result': final_result_message ...})
record_data(final_result_message) ==
    << [ kind |-> "record_data", message |-> final_result_message ] >>

\* an assertion that signals whatever the verdict is
assert_passed_unconditional(passed, final_result_message) ==
    << [ kind |-> "test_failure", message |-> final_result_message ] >>

\* asserts.assert_true(passed, final_result_message)
assert_passed(passed, final_result_message) ==
    IF passed THEN << >>
    ELSE << [ kind |-> "test_failure", message |-> final_result_message ] >>

\* what the method leaves behind; events holds, in the order of the calls,
\* the summary record it emitted and the test failure it signalled
_summary_test_results(test_results, iterations) ==
    LET success_count == CountSuccess(test_results)
        passed == IsPassed(success_count, iterations)
        final_result_message ==
            IF passed THEN [ prefix |-> "PASS", count |-> 0 ]
            ELSE [ prefix |-> "FAIL: low successes - ",
                   count |-> success_count ]
    IN  [ done |-> TRUE,
          success_count |-> success_count,
          passed |-> passed,
          final_result_message |-> final_result_message,
          recorded |-> TRUE,
          test_failure |-> ~passed,
          events |-> record_data(final_result_message)
                       \o assert_passed(passed, final_result_message),
          failed_iteration_messages |->
              __get_failed_iteration_messages(test_results) ]

SummaryTestResults ==
    /\ pc = "idle"
    /\ summary' = _summary_test_results(_test_results,
                                        performance_test_iterations)
    /\ pc' = "done"
    /\ UNCHANGED << _performance_test_metrics, calc_vars >>
    /\ UNCHANGED << scenario, performance_test_iterations,
                    _current_test_result, _prior_bt_nc_fail_reason,
                    _active_nc_fail_reason, _finished_test_iteration,
                    _use_prior_bt, _test_results,
                    _throughout_benchmark_kbyte_per_sec, prior_bt_snippet,
                    active_snippet, stage_log, iteration_logs >>

----------------------------------------------------------------------------

Next ==
    \/ SetupTest
    \/ SourceWifi
    \/ PriorBt
    \/ TargetWifi
    \/ PrimaryConnect
    \/ TransferFile
    \/ ThresholdCheck
    \/ Disconnect
    \/ TeardownTest
    \/ SummaryTestResults

Spec == Init /\ [][Next]_vars

----------------------------------------------------------------------------
(* The verdict on its own: _summary_test_results applied to any results list *)

\* the failure reasons of the recorded results are all the verdict reads
SummaryReasons == { SUCCESS, FILE_TRANSFER_FAIL }

RecordedResult(i, reason) ==
    [ SingleTestResult EXCEPT !.test_iteration = i - 1,
                              !.failure_reason = reason ]

InitSummary ==
    /\ pc = "idle"
    /\ scenario \in { sc \in Scenarios :
                        /\ sc.wifi_ssid /\ sc.requires_bt_multiplex
                        /\ ~sc.force_disable_bt_multiplex
                        /\ sc.advertiser = Device2x2
                        /\ sc.flags.is_mcc }
    /\ performance_test_iterations \in 1..MaxSummaryIterations
    /\ \E finished \in 0..performance_test_iterations :
         /\ _finished_test_iteration = finished
         /\ \E reasons \in [ 1..finished -> SummaryReasons ] :
              _test_results = [ i \in 1..finished |->
                                  RecordedResult(i, reasons[i]) ]
    /\ _current_test_result = SingleTestResult
    /\ _prior_bt_nc_fail_reason = UNINITIALIZED
    /\ _active_nc_fail_reason = UNINITIALIZED
    /\ _use_prior_bt = FALSE
    /\ _throughout_benchmark_kbyte_per_sec = NoBenchmark
    /\ prior_bt_snippet = NoSnippet
    /\ active_snippet = NoSnippet
    /\ stage_log = NewStageLog
    /\ iteration_logs = << >>
    /\ summary = NoSummary
    /\ _performance_test_metrics = NcPerformanceTestMetrics
    /\ CalcIdle

NextSummary == SummaryTestResults

SpecSummary == InitSummary /\ [][NextSummary]_vars

----------------------------------------------------------------------------
(* The benchmark on its own: _get_throughout_benchmark for any capabilities *)

\* everything but the statistics and benchmark variables, as __init__ leaves it
OrchestratorIdle ==
    /\ pc = "idle"
    /\ scenario = CHOOSE sc \in Scenarios : TRUE
    /\ performance_test_iterations = 1
    /\ _current_test_result = SingleTestResult
    /\ _prior_bt_nc_fail_reason = UNINITIALIZED
    /\ _active_nc_fail_reason = UNINITIALIZED
    /\ _finished_test_iteration = 0
    /\ _use_prior_bt = FALSE
    /\ _test_results = << >>
    /\ _throughout_benchmark_kbyte_per_sec = NoBenchmark
    /\ prior_bt_snippet = NoSnippet
    /\ active_snippet = NoSnippet
    /\ stage_log = NewStageLog
    /\ iteration_logs = << >>
    /\ summary = NoSummary
    /\ _performance_test_metrics = NcPerformanceTestMetrics

\* the capabilities a device can declare in the testbed configuration
DeclaredDevices ==
    { d \in [ max_num_streams : 1..MaxDeclaredStreams,
              max_num_streams_dbs : 1..MaxDeclaredStreams,
              max_phy_rate_2g_mbps : { 72, 144 },
              max_phy_rate_5g_mbps : { 433, 866 } ] :
        d.max_num_streams_dbs <= d.max_num_streams }

\* the discoverer's DBS limit is never read
DeclaredDiscoverers ==
    { d \in DeclaredDevices : d.max_num_streams_dbs = d.max_num_streams }

\* mFrequency and mMaxSupportedTxLinkSpeed of wifiGetConnectionInfo(), or the
\* defaults when the key is missing
StaFrequencies == { _INVALID_FREQ, 2437, 5180 }
StaMaxLinkSpeeds == { _INVALID_MAX_LINK_SPEED, 400, 866 }

BenchmarkInputs ==
    [ discoverer : DeclaredDiscoverers,
      advertiser : DeclaredDevices,
      sta_frequency : StaFrequencies,
      sta_max_link_speed_mbps : StaMaxLinkSpeeds,
      is_2g_d2d_wifi_medium : BOOLEAN,
      is_dbs_mode : BOOLEAN,
      is_mcc : BOOLEAN,
      upgrade_medium : { WIFI_LAN, WIFI_HOTSPOT, WIFI_DIRECT } ]

InitBenchmark ==
    /\ OrchestratorIdle
    /\ series = NoSeries
    /\ stats = NoStats
    /\ benchmark_inputs \in BenchmarkInputs
    /\ benchmark_result = NoBenchmarkResult
    /\ iperf = NoIperf
    /\ recording = NoRecording

BenchmarkFor(inputs) ==
    _get_throughout_benchmark(
        inputs.discoverer, inputs.advertiser, inputs.sta_frequency,
        inputs.sta_max_link_speed_mbps, inputs.is_2g_d2d_wifi_medium,
        inputs.is_dbs_mode, inputs.is_mcc, inputs.upgrade_medium)

\* one call of _get_throughout_benchmark: what it returns and what it logs
GetThroughoutBenchmark ==
    /\ ~benchmark_result.called
    /\ benchmark_result' =
         [ called |-> TRUE,
           max_num_streams |->
               MaxNumStreams(benchmark_inputs.discoverer,
                             benchmark_inputs.advertiser,
                             benchmark_inputs.is_2g_d2d_wifi_medium,
                             benchmark_inputs.is_dbs_mode),
           max_phy_rate_mbps |->
               MaxPhyRateMbps(benchmark_inputs.discoverer,
                              benchmark_inputs.advertiser,
                              benchmark_inputs.sta_frequency,
                              benchmark_inputs.sta_max_link_speed_mbps,
                              benchmark_inputs.is_2g_d2d_wifi_medium,
                              benchmark_inputs.is_dbs_mode),
           min_throughput_mbyte_per_sec |->
               BenchmarkFor(benchmark_inputs) \div 1024,
           benchmark |-> BenchmarkFor(benchmark_inputs) ]
    /\ UNCHANGED << pc, scenario, performance_test_iterations,
                    _current_test_result, _prior_bt_nc_fail_reason,
                    _active_nc_fail_reason, _finished_test_iteration,
                    _use_prior_bt, _test_results,
                    _throughout_benchmark_kbyte_per_sec, prior_bt_snippet,
                    active_snippet, stage_log, iteration_logs, summary,
                    _performance_test_metrics, series, stats,
                    benchmark_inputs, iperf, recording >>

NextBenchmark == GetThroughoutBenchmark

SpecBenchmark == InitBenchmark /\ [][NextBenchmark]_vars

----------------------------------------------------------------------------
(* The statistics on their own: __get_latency_stats and __get_transfer_stats *)

\* list.sort(): a sequence of numbers in ascending order
RECURSIVE InsertAscending(_, _)
InsertAscending(x, sorted) ==
    IF sorted = << >> THEN << x >>
    ELSE IF x <= Head(sorted) THEN << x >> \o sorted
    ELSE << Head(sorted) >> \o InsertAscending(x, Tail(sorted))

RECURSIVE SortAscending(_)
SortAscending(seq) ==
    IF seq = << >> THEN << >>
    ELSE InsertAscending(Head(seq), SortAscending(Tail(seq)))

\* a sort that leaves the list as it is
SortDescendingUnsorted(seq) == seq

\* list.sort(reverse=True)
SortDescending(seq) ==
    LET ascending == SortAscending(seq)
    IN  [ i \in 1..Len(seq) |-> ascending[Len(seq) + 1 - i] ]

\* a filter that keeps every entry
KeepAll(seq, unset) == seq

\* [x for x in seq if x != unset]
Measured(seq, unset) == SelectSeq(seq, LAMBDA x : x # unset)

\* the lower middle of the sorted values
PercentileIndexLowerMiddle(len) == (len - 1) \div 2

\* int(len(filtered) * PERCENTILE_50_FACTOR), an index counted from 0
PercentileIndex(len) == IntOfPercent(len, PERCENTILE_50_FACTOR)

\* a conversion that cuts the digits after the first decimal place
__convert_kbps_to_mbps_truncated(throughput_kbps) ==
    (throughput_kbps * 10) \div 1024

\* round(throughput_kbps / 1024, 1), in tenths of a MB/s: the quotient is
\* exact in binary, so round() gives the nearest tenth and the even one of
\* two equally near
__convert_kbps_to_mbps(throughput_kbps) ==
    LET q == (throughput_kbps * 10) \div 1024
        r == (throughput_kbps * 10) % 1024
    IN  IF 2 * r < 1024 THEN q
        ELSE IF 2 * r > 1024 THEN q + 1
        ELSE IF q % 2 = 0 THEN q ELSE q + 1

\* round(latency.total_seconds(), LATENCY_PRECISION_DIGITS) of a latency given
\* in milliseconds, in tenths of a second; no latency of the model lies
\* halfway between two tenths
RoundLatency(latency_ms) ==
    LET unit_ms == 10 ^ (3 - LATENCY_PRECISION_DIGITS)
    IN  (latency_ms + unit_ms \div 2) \div unit_ms

__get_transfer_stats(throughput_indicators) ==
    LET filtered == SortDescending(Measured(throughput_indicators,
                                            UNSET_THROUGHPUT_KBPS))
    IN  IF filtered = << >> THEN TestResultStats(0, 0, 0, 0)
        ELSE TestResultStats(
                 Len(filtered),
                 __convert_kbps_to_mbps(filtered[Len(filtered)]),
                 __convert_kbps_to_mbps(
                     filtered[PercentileIndex(Len(filtered)) + 1]),
                 __convert_kbps_to_mbps(filtered[1]))

__get_latency_stats(latency_indicators) ==
    LET filtered == SortAscending(Measured(latency_indicators, UNSET_LATENCY))
    IN  IF filtered = << >> THEN TestResultStats(0, 0, 0, 0)
        ELSE TestResultStats(
                 Len(filtered),
                 RoundLatency(filtered[1]),
                 RoundLatency(filtered[PercentileIndex(Len(filtered)) + 1]),
                 RoundLatency(filtered[Len(filtered)]))

\* latencies in milliseconds and throughputs in KBps an iteration can leave
\* in the metrics, the unset sentinel among them
LatencyValues == { UNSET_LATENCY, 1234, 10000, 20000, 30000, 40000, 50000 }
ThroughputValues == { UNSET_THROUGHPUT_KBPS, 100, 200, 300, 768 }

SeriesOf(values) == UNION { [ 1..n -> values ] : n \in 0..MaxSeriesLen }

InitStats ==
    /\ OrchestratorIdle
    /\ \/ series \in [ kind : { "latency" }, values : SeriesOf(LatencyValues) ]
       \/ series \in [ kind : { "throughput" },
                        values : SeriesOf(ThroughputValues) ]
    /\ stats = NoStats
    /\ benchmark_inputs = NoBenchmarkInputs
    /\ benchmark_result = NoBenchmarkResult
    /\ iperf = NoIperf
    /\ recording = NoRecording

GetLatencyStats ==
    /\ series.kind = "latency"
    /\ ~stats.called
    /\ stats' = [ called |-> TRUE,
                  result |-> __get_latency_stats(series.values) ]
    /\ UNCHANGED << pc, scenario, performance_test_iterations,
                    _current_test_result, _prior_bt_nc_fail_reason,
                    _active_nc_fail_reason, _finished_test_iteration,
                    _use_prior_bt, _test_results,
                    _throughout_benchmark_kbyte_per_sec, prior_bt_snippet,
                    active_snippet, stage_log, iteration_logs, summary,
                    _performance_test_metrics, series, benchmark_inputs,
                    benchmark_result, iperf, recording >>

GetTransferStats ==
    /\ series.kind = "throughput"
    /\ ~stats.called
    /\ stats' = [ called |-> TRUE,
                  result |-> __get_transfer_stats(series.values) ]
    /\ UNCHANGED << pc, scenario, performance_test_iterations,
                    _current_test_result, _prior_bt_nc_fail_reason,
                    _active_nc_fail_reason, _finished_test_iteration,
                    _use_prior_bt, _test_results,
                    _throughout_benchmark_kbyte_per_sec, prior_bt_snippet,
                    active_snippet, stage_log, iteration_logs, summary,
                    _performance_test_metrics, series, benchmark_inputs,
                    benchmark_result, iperf, recording >>

NextStats ==
    \/ GetLatencyStats
    \/ GetTransferStats

SpecStats == InitStats /\ [][NextStats]_vars

----------------------------------------------------------------------------
(* Properties *)

Recorded == 1..Len(_test_results)

ReturnedOrSkipped == { "returned", "skipped" }

\* every stage the iteration ran returned, up to and including the transfer
AllStagesReturned(log) ==
    /\ log.src_wifi \in ReturnedOrSkipped
    /\ log.prior_bt \in ReturnedOrSkipped
    /\ log.tgt_wifi \in ReturnedOrSkipped
    /\ log.primary = "returned"
    /\ log.transfer = "returned"

\* the benchmark for the medium iteration i negotiated and the association
\* the advertiser reported in that iteration
BenchmarkOf(i) ==
    _get_throughout_benchmark(
        scenario.discoverer, scenario.advertiser,
        iteration_logs[i].sta_frequency,
        iteration_logs[i].sta_max_link_speed_mbps,
        scenario.flags.is_2g_d2d_wifi_medium, scenario.flags.is_dbs_mode,
        scenario.flags.is_mcc,
        _test_results[i].file_transfer_nc_setup_quality_info.upgrade_medium)

\* C1: a recorded result has failure_reason SUCCESS if and only if every
\* executed stage of its iteration returned without error and the measured
\* throughput is at least the benchmark recomputed for the negotiated medium.
C1_SuccessIffAllStagesAndThroughput ==
    \A i \in Recorded :
        (_test_results[i].failure_reason = SUCCESS)
        <=> /\ AllStagesReturned(iteration_logs[i])
            /\ _test_results[i].file_transfer_throughput_kbps >= BenchmarkOf(i)

\* C1 witness: a recorded SUCCESS of an iteration that ran every stage, and a
\* recorded failure of an iteration that ran every stage too
C1_Witness ==
    /\ \E i \in Recorded :
         /\ _test_results[i].failure_reason = SUCCESS
         /\ iteration_logs[i].src_wifi = "returned"
         /\ iteration_logs[i].prior_bt = "returned"
         /\ iteration_logs[i].tgt_wifi = "returned"
    /\ \E i \in Recorded :
         /\ _test_results[i].failure_reason # SUCCESS
         /\ AllStagesReturned(iteration_logs[i])

SuccessIndices ==
    { i \in Recorded : _test_results[i].failure_reason = SUCCESS }

\* C2: the verdict is PASS if and only if success_count >=
\* floor(performance_test_iterations * SUCCESS_RATE_TARGET); the threshold is
\* not strict: of 10 iterations, 8 successes pass and 7 fail.
C2_PassIffSuccessRate ==
    summary.done =>
        LET c == Cardinality(SuccessIndices)
            n == performance_test_iterations
        IN  /\ summary.passed
                <=> PERCENT * (c + 1) > n * SUCCESS_RATE_TARGET
            /\ summary.passed <=> summary.final_result_message.prefix = "PASS"
            /\ (n = 10 /\ c = 8) => summary.passed
            /\ (n = 10 /\ c = 7) => ~summary.passed

\* C2 witness: a run of 10 required iterations with exactly 8 successes passes
C2_Witness ==
    /\ summary.done
    /\ performance_test_iterations = 10
    /\ Cardinality(SuccessIndices) = 8
    /\ summary.passed

C5_PriorBtMasking ==
    \A i \in Recorded :
        IF /\ iteration_logs[i].prior_created
           /\ iteration_logs[i].prior_reason # SUCCESS
        THEN /\ _test_results[i].failure_reason = iteration_logs[i].prior_reason
             /\ _test_results[i].is_failed_with_prior_bt
        ELSE /\ _test_results[i].failure_reason = iteration_logs[i].active_reason
             /\ ~_test_results[i].is_failed_with_prior_bt

\* C6: after a transfer that returned, the iteration is marked
\* FILE_TRANSFER_THROUGHPUT_LOW and a test failure is raised exactly when the
\* measured throughput is strictly below the benchmark; a throughput equal to
\* the benchmark leaves the iteration SUCCESS.
C6_LowExactlyWhenBelowBenchmark ==
    \A i \in Recorded :
        iteration_logs[i].transfer = "returned" =>
            LET measured == _test_results[i].file_transfer_throughput_kbps
            IN  /\ (_test_results[i].failure_reason
                      = FILE_TRANSFER_THROUGHPUT_LOW)
                    <=> measured < BenchmarkOf(i)
                /\ iteration_logs[i].raised <=> measured < BenchmarkOf(i)
                /\ measured = BenchmarkOf(i)
                    => _test_results[i].failure_reason = SUCCESS

\* C6 witness: a throughput equal to the benchmark is recorded as SUCCESS, and
\* one below the benchmark as FILE_TRANSFER_THROUGHPUT_LOW
C6_Witness ==
    /\ \E i \in Recorded :
         /\ iteration_logs[i].transfer = "returned"
         /\ _test_results[i].file_transfer_throughput_kbps = BenchmarkOf(i)
         /\ BenchmarkOf(i) > 0
         /\ _test_results[i].failure_reason = SUCCESS
    /\ \E i \in Recorded :
         /\ iteration_logs[i].transfer = "returned"
         /\ _test_results[i].failure_reason = FILE_TRANSFER_THROUGHPUT_LOW

\* C7: the throughput is compared with the benchmark only after transfer_file
\* has returned a measured throughput in that iteration: never when the
\* transfer raised or was not attempted, never against the unset sentinel.
C7_ComparedOnlyAfterTransferReturned ==
    /\ stage_log.threshold # "not_evaluated" =>
         /\ stage_log.transfer = "returned"
         /\ stage_log.compared_throughput # UNSET_THROUGHPUT_KBPS
         /\ stage_log.compared_throughput \in TransferThroughputs
    /\ stage_log.transfer # "returned" =>
         /\ stage_log.threshold = "not_evaluated"
         /\ _active_nc_fail_reason # FILE_TRANSFER_THROUGHPUT_LOW

\* C7 witness: a comparison has been made and found the throughput low
C7_Witness ==
    /\ stage_log.threshold = "low"
    /\ stage_log.transfer = "returned"
    /\ pc = "teardown_test"

\* C8: in every iteration with a Wi-Fi SSID supplied, a failed discoverer
\* association is recorded as SOURCE_WIFI_CONNECTION and a failed advertiser
\* association as TARGET_WIFI_CONNECTION.
C8_WifiFailureReasonRecorded ==
    \A i \in Recorded :
        /\ iteration_logs[i].src_wifi = "raised"
             => _test_results[i].failure_reason = SOURCE_WIFI_CONNECTION
        /\ iteration_logs[i].tgt_wifi = "raised"
             => _test_results[i].failure_reason = TARGET_WIFI_CONNECTION

\* C9: no recorded result has failure_reason UNINITIALIZED.
C9_NoUninitializedRecorded ==
    \A i \in Recorded : _test_results[i].failure_reason # UNINITIALIZED

\* C10: every recorded result message is exactly PASS or has the form
\* "FAIL: <reason-name> - <triage tip>".
C10_MessageIsPassOrFail ==
    \A i \in Recorded :
        \/ _test_results[i].result_message = Message("PASS", "", "", "")
        \/ /\ _test_results[i].result_message.prefix = "FAIL: "
           /\ _test_results[i].result_message.name
                = _test_results[i].failure_reason
           /\ _test_results[i].result_message.sep = " - "
           /\ _test_results[i].result_message.tip # ""

----------------------------------------------------------------------------
(* Collected metrics *)

\* the metric sequences _collect_current_test_metrics appends to in every
\* iteration
AlwaysRecordedMetrics ==
    { "file_transfer_discovery_latencies",
      "file_transfer_connection_latencies",
      "upgraded_wifi_transfer_mediums",
      "file_transfer_throughputs_kbps",
      "discoverer_wifi_sta_latencies",
      "advertiser_wifi_sta_latencies" }

\* C11: after k iterations have finished, the results list and every
\* always-recorded metric sequence hold exactly k entries and
\* medium_upgrade_latencies holds at most k; a failed iteration is recorded
\* like any other and the iterations after it are recorded too.
C11_OneEntryPerIteration ==
    /\ Len(_test_results) = _finished_test_iteration
    /\ \A metric \in AlwaysRecordedMetrics :
           Len(_performance_test_metrics[metric]) = _finished_test_iteration
    /\ Len(_performance_test_metrics.medium_upgrade_latencies)
         <= _finished_test_iteration

\* two iterations are recorded, the first one failed before it measured a
\* throughput, and no upgrade latency was collected for it
C11_Witness ==
    /\ _finished_test_iteration = 2
    /\ _test_results[1].failure_reason # SUCCESS
    /\ _performance_test_metrics.file_transfer_throughputs_kbps[1]
         = UNSET_THROUGHPUT_KBPS
    /\ _test_results[2].failure_reason = SUCCESS
    /\ Len(_performance_test_metrics.medium_upgrade_latencies) = 1

----------------------------------------------------------------------------
(* The failure signalled by the summary *)

SummaryEvents(kind) ==
    { i \in DOMAIN summary.events : summary.events[i].kind = kind }

\* C12: _summary_test_results signals a test failure if and only if the
\* verdict is not PASS, its payload is "FAIL: low successes - <success_count>",
\* and whether it passes or fails it emits exactly one summary record, which
\* carries the verdict message and comes before the failure signal.
C12_FailureSignalledIffNotPass ==
    summary.done =>
        /\ SummaryEvents("test_failure") # {}
             <=> summary.final_result_message.prefix # "PASS"
        /\ \A i \in SummaryEvents("test_failure") :
               summary.events[i].message =
                   [ prefix |-> "FAIL: low successes - ",
                     count |-> Cardinality(SuccessIndices) ]
        /\ Cardinality(SummaryEvents("record_data")) = 1
        /\ \A i \in SummaryEvents("record_data") :
               /\ summary.events[i].message = summary.final_result_message
               /\ \A j \in SummaryEvents("test_failure") : i < j

\* a run of 10 required iterations with 7 successes: the record is emitted and
\* then the failure is signalled with the count 7
C12_Witness ==
    /\ summary.done
    /\ performance_test_iterations = 10
    /\ Cardinality(SuccessIndices) = 7
    /\ Len(summary.events) = 2
    /\ summary.events[2].kind = "test_failure"
    /\ summary.events[2].message.count = 7

----------------------------------------------------------------------------
(* The benchmark *)

\* C14: when the negotiated upgrade medium is Wi-Fi LAN the benchmark is at
\* most WIFI_LAN_THROUGHPUT_MAX_MBPS * 1024, whatever the band, the stream
\* counts and the PHY rates.
C14_WifiLanCeiling ==
    (benchmark_result.called /\ benchmark_inputs.upgrade_medium = WIFI_LAN)
        => benchmark_result.benchmark <= WIFI_LAN_THROUGHPUT_MAX_MBPS * 1024

\* two 2x2 devices at 866 Mb/s on 5 GHz, no MCC, no DBS, STA on 5180 MHz with
\* an 80 MHz link: the 80 MHz-class rate gives more than the ceiling and the
\* benchmark is the ceiling
C14_Witness ==
    /\ benchmark_result.called
    /\ benchmark_inputs.upgrade_medium = WIFI_LAN
    /\ ~benchmark_inputs.is_2g_d2d_wifi_medium
    /\ ~benchmark_inputs.is_mcc
    /\ ~benchmark_inputs.is_dbs_mode
    /\ benchmark_inputs.sta_frequency = 5180
    /\ benchmark_result.max_phy_rate_mbps = 866
    /\ 866 * MAX_PHY_RATE_TO_MIN_THROUGHPUT_RATIO_5G
         > WIFI_LAN_THROUGHPUT_MAX_MBPS * PERCENT * _BITS_PER_BYTE
    /\ benchmark_result.benchmark = WIFI_LAN_THROUGHPUT_MAX_MBPS * 1024

\* the benchmark in MB/s of the same devices and association in a scenario
\* without MCC whose upgrade medium is neither Wi-Fi Hotspot nor Wi-Fi LAN
PlainBenchmarkMbytePerSec ==
    BenchmarkFor([ benchmark_inputs EXCEPT !.is_mcc = FALSE,
                                           !.upgrade_medium = WIFI_DIRECT ])
        \div 1024

\* base multiplied by the MCC factor when the scenario forces MCC and then by
\* the hotspot multiplier when the upgrade medium is Wi-Fi Hotspot, each
\* product rounded down, and held under the ceiling for Wi-Fi LAN
ScenarioMultiplied(base) ==
    LET after_mcc ==
            IF benchmark_inputs.is_mcc
            THEN (base * MCC_THROUGHPUT_MULTIPLIER) \div PERCENT
            ELSE base
        after_hotspot ==
            IF benchmark_inputs.upgrade_medium = WIFI_HOTSPOT
            THEN (after_mcc * WIFI_HOTSPOT_THROUGHPUT_MULTIPLIER) \div PERCENT
            ELSE after_mcc
    IN  IF benchmark_inputs.upgrade_medium = WIFI_LAN
        THEN Min(after_hotspot, WIFI_LAN_THROUGHPUT_MAX_MBPS)
        ELSE after_hotspot

\* C15 (as claimed): on either band the benchmark is the benchmark without
\* MCC multiplied by the MCC factor when the scenario forces MCC, and further
\* by the hotspot multiplier when the upgrade medium is Wi-Fi Hotspot.
C15_MultipliersOnEitherBand ==
    benchmark_result.called =>
        benchmark_result.benchmark
            = 1024 * ScenarioMultiplied(PlainBenchmarkMbytePerSec)

\* C15 (amended): the multipliers are applied on a 5 GHz medium only; on a
\* 2.4 GHz medium the benchmark is the same with and without MCC and
\* whatever the upgrade medium.
C15_MultipliersOn5gOnly ==
    benchmark_result.called =>
        benchmark_result.benchmark
            = 1024 * (IF benchmark_inputs.is_2g_d2d_wifi_medium
                      THEN PlainBenchmarkMbytePerSec
                      ELSE ScenarioMultiplied(PlainBenchmarkMbytePerSec))

\* a 5 GHz MCC scenario on Wi-Fi Hotspot: 40 MB/s without the penalties,
\* 10 MB/s after the MCC factor and 4 MB/s after the hotspot multiplier
C15_Witness ==
    /\ benchmark_result.called
    /\ ~benchmark_inputs.is_2g_d2d_wifi_medium
    /\ benchmark_inputs.is_mcc
    /\ benchmark_inputs.upgrade_medium = WIFI_HOTSPOT
    /\ PlainBenchmarkMbytePerSec = 40
    /\ benchmark_result.benchmark = 4 * 1024

\* C16: the PHY rate is the smaller of the two peers' declared rate for the
\* band and of the stream count times the band's per-stream rate, and on a
\* 5 GHz medium it is also held under the stream count times the 40 MHz-class
\* rate exactly when the STA frequency is above 5000, the STA max link speed
\* is known (> 0) and it is below the stream count times the 80 MHz-class rate.
C16_PhyRate ==
    benchmark_result.called =>
        LET in == benchmark_inputs
            streams == benchmark_result.max_num_streams
            declared ==
                IF in.is_2g_d2d_wifi_medium
                THEN Min(in.discoverer.max_phy_rate_2g_mbps,
                         in.advertiser.max_phy_rate_2g_mbps)
                ELSE Min(in.discoverer.max_phy_rate_5g_mbps,
                         in.advertiser.max_phy_rate_5g_mbps)
            per_stream ==
                IF in.is_2g_d2d_wifi_medium
                THEN MAX_PHY_RATE_PER_STREAM_N_20_MBPS
                ELSE MAX_PHY_RATE_PER_STREAM_AC_80_MBPS
            narrow_sta_link ==
                /\ ~in.is_2g_d2d_wifi_medium
                /\ in.sta_frequency > 5000
                /\ in.sta_max_link_speed_mbps > 0
                /\ in.sta_max_link_speed_mbps
                     < streams * MAX_PHY_RATE_PER_STREAM_AC_80_MBPS
        IN  benchmark_result.max_phy_rate_mbps
              = IF narrow_sta_link
                THEN Min(Min(declared, streams * per_stream),
                         streams * MAX_PHY_RATE_PER_STREAM_AC_40_MBPS)
                ELSE Min(declared, streams * per_stream)

\* two streams at a declared 866 Mb/s with the STA on a 5 GHz link of
\* 400 Mb/s: the rate is held at 2 * 200 Mb/s
C16_Witness ==
    /\ benchmark_result.called
    /\ ~benchmark_inputs.is_2g_d2d_wifi_medium
    /\ benchmark_result.max_num_streams = 2
    /\ benchmark_inputs.discoverer.max_phy_rate_5g_mbps = 866
    /\ benchmark_inputs.advertiser.max_phy_rate_5g_mbps = 866
    /\ benchmark_inputs.sta_frequency = 5180
    /\ benchmark_inputs.sta_max_link_speed_mbps = 400
    /\ benchmark_result.max_phy_rate_mbps
         = 2 * MAX_PHY_RATE_PER_STREAM_AC_40_MBPS

\* C17 (as claimed): the stream count is the smaller of the two declared
\* max_num_streams, and in DBS mode, on either band, the advertiser's DBS limit.
C17_DbsStreamsOnEitherBand ==
    benchmark_result.called =>
        benchmark_result.max_num_streams
            = IF benchmark_inputs.is_dbs_mode
              THEN benchmark_inputs.advertiser.max_num_streams_dbs
              ELSE Min(benchmark_inputs.discoverer.max_num_streams,
                       benchmark_inputs.advertiser.max_num_streams)

\* C17 (amended): the advertiser's DBS limit takes the place of the smaller
\* declared count in DBS mode on a 5 GHz medium only; on a 2.4 GHz medium the
\* stream count is the smaller declared count whether in DBS mode or not.
C17_DbsStreamsOn5gOnly ==
    benchmark_result.called =>
        benchmark_result.max_num_streams
            = IF benchmark_inputs.is_dbs_mode
                 /\ ~benchmark_inputs.is_2g_d2d_wifi_medium
              THEN benchmark_inputs.advertiser.max_num_streams_dbs
              ELSE Min(benchmark_inputs.discoverer.max_num_streams,
                       benchmark_inputs.advertiser.max_num_streams)

\* DBS mode on a 5 GHz medium, two 2-stream devices, an advertiser limited to
\* one stream in DBS mode: one stream, and the PHY rate of one stream
C17_Witness ==
    /\ benchmark_result.called
    /\ benchmark_inputs.is_dbs_mode
    /\ ~benchmark_inputs.is_2g_d2d_wifi_medium
    /\ benchmark_inputs.discoverer.max_num_streams = 2
    /\ benchmark_inputs.advertiser.max_num_streams = 2
    /\ benchmark_inputs.advertiser.max_num_streams_dbs = 1
    /\ benchmark_result.max_num_streams = 1
    /\ benchmark_result.max_phy_rate_mbps
         <= MAX_PHY_RATE_PER_STREAM_AC_80_MBPS

----------------------------------------------------------------------------
(* The statistics *)

\* the entries of the series that are measured values, by position
MeasuredPositions == { i \in DOMAIN series.values : series.values[i] # -1 }

\* v is the element at index k, counted from 0, of the measured values put in
\* ascending order
IsAtAscendingIndex(v, k) ==
    /\ \E i \in MeasuredPositions : series.values[i] = v
    /\ Cardinality({ i \in MeasuredPositions : series.values[i] < v }) <= k
    /\ k < Cardinality({ i \in MeasuredPositions : series.values[i] <= v })

\* v is the element at index k, counted from 0, of the measured values put in
\* descending order
IsAtDescendingIndex(v, k) ==
    /\ \E i \in MeasuredPositions : series.values[i] = v
    /\ Cardinality({ i \in MeasuredPositions : series.values[i] > v }) <= k
    /\ k < Cardinality({ i \in MeasuredPositions : series.values[i] >= v })

\* `tenths` (of a second) is the latency of `ms` milliseconds itself
IsExactLatency(ms, tenths) == tenths * 100 = ms

\* `tenths` (of a second) is the tenth nearest to the latency of `ms` milliseconds
IsRoundedLatency(ms, tenths) ==
    /\ 100 * tenths - 50 <= ms
    /\ ms <= 100 * tenths + 50

\* `tenths` (of a MB/s) is the tenth nearest to kbps / 1024, the even one of
\* two equally near
IsKbpsInMbps(kbps, tenths) ==
    LET twice_off == 2 * (10 * kbps - 1024 * tenths)
    IN  \/ -1024 < twice_off /\ twice_off < 1024
        \/ (twice_off = 1024 \/ twice_off = -1024) /\ tenths % 2 = 0

\* C18 (as claimed): of a latency series with n >= 1 measured values the
\* statistics report the count n, the smallest value as min, the largest as
\* max and as median the element at index floor(n * 0.5) of the ascending
\* order, these values themselves.
C18_LatencyStatsExact ==
    (stats.called /\ series.kind = "latency" /\ MeasuredPositions # {}) =>
        LET n == Cardinality(MeasuredPositions)
        IN  /\ stats.result.success_count = n
            /\ \E v \in LatencyValues :
                   /\ IsAtAscendingIndex(v, 0)
                   /\ IsExactLatency(v, stats.result.min_val)
            /\ \E v \in LatencyValues :
                   /\ IsAtAscendingIndex(v, n - 1)
                   /\ IsExactLatency(v, stats.result.max_val)
            /\ \E v \in LatencyValues :
                   /\ IsAtAscendingIndex(v, n \div 2)
                   /\ IsExactLatency(v, stats.result.median_val)

\* C18 (amended): the statistics report the count n and, each rounded to
\* LATENCY_PRECISION_DIGITS decimal places of a second, the smallest value as
\* min, the largest as max and the element at index floor(n * 0.5) of the
\* ascending order as median; [10, 20, 30, 40, 50] seconds gives 30.
C18_LatencyStatsRounded ==
    (stats.called /\ series.kind = "latency" /\ MeasuredPositions # {}) =>
        LET n == Cardinality(MeasuredPositions)
        IN  /\ stats.result.success_count = n
            /\ \E v \in LatencyValues :
                   /\ IsAtAscendingIndex(v, 0)
                   /\ IsRoundedLatency(v, stats.result.min_val)
            /\ \E v \in LatencyValues :
                   /\ IsAtAscendingIndex(v, n - 1)
                   /\ IsRoundedLatency(v, stats.result.max_val)
            /\ \E v \in LatencyValues :
                   /\ IsAtAscendingIndex(v, n \div 2)
                   /\ IsRoundedLatency(v, stats.result.median_val)
            /\ series.values = << 10000, 20000, 30000, 40000, 50000 >>
                 => stats.result.median_val = 300

\* latencies of 40 s, 1.234 s, 20 s and 30 s in this order: four values, the
\* min reported as 1.2 s, the median as 30.0 s and the max as 40.0 s
C18_Witness ==
    /\ stats.called
    /\ series.kind = "latency"
    /\ series.values = << 40000, 1234, 20000, 30000 >>
    /\ stats.result = TestResultStats(4, 12, 300, 400)

\* C19: of a throughput series with n >= 1 measured values the statistics
\* report the count n, the first element of the descending order as max, the
\* last as min and the element at index floor(n * 0.5) as median, each
\* converted from KBps to MBps; [100, 300, 200] gives round(200 / 1024, 1).
C19_TransferStats ==
    (stats.called /\ series.kind = "throughput" /\ MeasuredPositions # {}) =>
        LET n == Cardinality(MeasuredPositions)
        IN  /\ stats.result.success_count = n
            /\ \E v \in ThroughputValues :
                   /\ IsAtDescendingIndex(v, 0)
                   /\ IsKbpsInMbps(v, stats.result.max_val)
            /\ \E v \in ThroughputValues :
                   /\ IsAtDescendingIndex(v, n - 1)
                   /\ IsKbpsInMbps(v, stats.result.min_val)
            /\ \E v \in ThroughputValues :
                   /\ IsAtDescendingIndex(v, n \div 2)
                   /\ IsKbpsInMbps(v, stats.result.median_val)
            /\ series.values = << 100, 300, 200 >>
                 => stats.result.median_val = 2

\* throughputs of 100, 768, 300 and 200 KBps: four values, 0.1 MB/s as min,
\* 0.2 MB/s (the element at index 2 of 768, 300, 200, 100) as median and
\* 0.8 MB/s as max
C19_Witness ==
    /\ stats.called
    /\ series.kind = "throughput"
    /\ series.values = << 100, 768, 300, 200 >>
    /\ stats.result = TestResultStats(4, 1, 2, 8)

\* the series without its sentinel entries
WithoutSentinels == SelectSeq(series.values, LAMBDA x : x # -1)

\* C20: the statistics of a series are the statistics of the series with its
\* sentinel entries removed, and a series that is empty or holds sentinels
\* only yields TestResultStats(0, 0, 0, 0).
C20_SentinelsNeverContribute ==
    stats.called =>
        /\ series.kind = "latency"
             => stats.result = __get_latency_stats(WithoutSentinels)
        /\ series.kind = "throughput"
             => stats.result = __get_transfer_stats(WithoutSentinels)
        /\ stats.result.success_count = Len(WithoutSentinels)
        /\ WithoutSentinels = << >>
             => stats.result = TestResultStats(0, 0, 0, 0)

\* a series of a sentinel, two measured latencies and a sentinel: two values
\* are counted and the min is the smaller measured one
C20_Witness ==
    /\ stats.called
    /\ series.kind = "latency"
    /\ series.values = << UNSET_LATENCY, 20000, 10000, UNSET_LATENCY >>
    /\ stats.result = TestResultStats(2, 100, 200, 200)

----------------------------------------------------------------------------
(* A run without a single success *)

\* C27: whatever performance_test_iterations >= 1 is, a run in which no
\* iteration succeeded does not get the verdict PASS: _summary_test_results
\* signals a test failure.
C27_ZeroSuccessesNeverPass ==
    (summary.done /\ performance_test_iterations >= 1
       /\ Cardinality(SuccessIndices) = 0) =>
        /\ ~summary.passed
        /\ summary.final_result_message.prefix # "PASS"
        /\ SummaryEvents("test_failure") # {}


----------------------------------------------------------------------------
(* Order of the stages and of the records *)

\* the stages of one iteration in the order of the body
StageOrder ==
    << "src_wifi", "prior_bt", "tgt_wifi", "primary", "transfer", "threshold" >>

StageRank(stage) == CHOOSE k \in DOMAIN StageOrder : StageOrder[k] = stage

\* the stages of StageOrder a log says were started, in the order they started
StartedStages(log) ==
    SelectSeq(log.started, LAMBDA s : \E k \in DOMAIN StageOrder : StageOrder[k] = s)

\* the stages started in the fixed order, each one only after every earlier
\* stage of the order returned or was skipped
StagesInOrder(log) ==
    LET started == StartedStages(log)
    IN  /\ \A a, b \in DOMAIN started :
               a < b => StageRank(started[a]) < StageRank(started[b])
        /\ \A a \in DOMAIN started :
               \A k \in 1..(StageRank(started[a]) - 1) :
                   k <= 5 => log[StageOrder[k]] \in ReturnedOrSkipped
        /\ log.primary = "raised"
             => \A a \in DOMAIN started : started[a] # "transfer"

\* C22: in every iteration the stages start in the order source Wi-Fi, prior
\* BT, target Wi-Fi, primary connection, file transfer, threshold check, a
\* stage starts only if every earlier executed stage returned without
\* raising, and no transfer is attempted after a failed primary connection.
C22_StagesStartInOrder ==
    /\ StagesInOrder(stage_log)
    /\ \A i \in Recorded : StagesInOrder(iteration_logs[i])

\* a first iteration that started all six stages in order and a second one
\* whose primary connection raised and that started no transfer
C22_Witness ==
    /\ Len(iteration_logs) = 2
    /\ StartedStages(iteration_logs[1]) = StageOrder
    /\ iteration_logs[2].primary = "raised"
    /\ StartedStages(iteration_logs[2])
         = << "src_wifi", "prior_bt", "tgt_wifi", "primary" >>

\* the recorded results that are not a SUCCESS, by position
FailedIndices ==
    { i \in Recorded : _test_results[i].failure_reason # SUCCESS }

\* C23: the i-th entry (counted from 0) of the results list has
\* test_iteration i, and the failed-iteration report lists exactly the entries
\* whose failure_reason is not SUCCESS, in the order of the list, or the single
\* line NA when there is none.
C23_RecordsInIterationOrder ==
    /\ \A i \in Recorded : _test_results[i].test_iteration = i - 1
    /\ summary.done =>
         IF FailedIndices = {}
         THEN summary.failed_iteration_messages = << NaLine >>
         ELSE /\ Len(summary.failed_iteration_messages)
                   = Cardinality(FailedIndices)
              /\ \A i \in FailedIndices :
                     LET k == Cardinality({ j \in FailedIndices : j < i }) + 1
                     IN  summary.failed_iteration_messages[k]
                           = [ na |-> FALSE, test_iteration |-> i - 1,
                               result_message |->
                                   _test_results[i].result_message ]

\* a summary after a success followed by a failure: the report has the one
\* line of iteration 1
C23_Witness ==
    /\ summary.done
    /\ Len(_test_results) = 2
    /\ _test_results[1].failure_reason = SUCCESS
    /\ _test_results[2].failure_reason = FILE_TRANSFER_FAIL
    /\ Len(summary.failed_iteration_messages) = 1
    /\ summary.failed_iteration_messages[1].test_iteration = 1

\* what iteration i records when it is the first one of a run: the report
\* written with the prior-BT flag this iteration set itself
RecordedWhenFirst(i) ==
    _write_current_test_report(
        [ _test_results[i] EXCEPT !.is_failed_with_prior_bt = FALSE ], i - 1,
        iteration_logs[i].prior_created, iteration_logs[i].prior_reason,
        iteration_logs[i].active_reason)

\* C25: the failure_reason, the is_failed_with_prior_bt flag and the result
\* message an iteration records depend on its own stage outcomes only: they
\* are what an iteration with the same outcomes records when it runs first.
C25_NoCarryOverBetweenIterations ==
    \A i \in Recorded :
        /\ _test_results[i].failure_reason = RecordedWhenFirst(i).failure_reason
        /\ _test_results[i].is_failed_with_prior_bt
             = RecordedWhenFirst(i).is_failed_with_prior_bt
        /\ _test_results[i].result_message = RecordedWhenFirst(i).result_message

\* C26: a recorded result has the message PASS if and only if its
\* failure_reason is SUCCESS, also when a prior BT failure takes the place of
\* the primary connection's reason.
C26_PassMessageIffSuccess ==
    \A i \in Recorded :
        _test_results[i].result_message = Message("PASS", "", "", "")
            <=> _test_results[i].failure_reason = SUCCESS

\* a recorded PASS and a recorded failure of the prior BT connection
C26_Witness ==
    /\ \E i \in Recorded :
         /\ _test_results[i].failure_reason = SUCCESS
         /\ _test_results[i].result_message.prefix = "PASS"
    /\ \E i \in Recorded :
         /\ _test_results[i].is_failed_with_prior_bt
         /\ iteration_logs[i].prior_bt = "raised"
         /\ _test_results[i].result_message.prefix
              = "FAIL (The prior BT connection): "


----------------------------------------------------------------------------
(* iperf_utils.py: the iperf3 server on the group owner and run_iperf_test *)

MaxReportedLines == 2         \* lines of output one iperf client run reports

GROUP_OWNER_IPV4_ADDR_LEN_MAX == 15
DEFAULT_IPV4_CLIENT_ARGS == "-t 10 -P1"

\* IPerfServerOnDevice.start: a no-op on a started server, otherwise a
\* standing subprocess is spawned
IPerfServerOnDevice_start(server) ==
    IF server.started
    THEN server
    ELSE [ server EXCEPT !.iperf_process = "running", !.started = TRUE ]

\* IPerfServerOnDevice.stop: a no-op on a server that is not started,
\* otherwise the standing subprocess is terminated
IPerfServerOnDevice_stop(server) ==
    IF server.started
    THEN [ server EXCEPT !.iperf_process = "terminated", !.started = FALSE ]
    ELSE server

\* the lengths of what get_group_owner_addr returns: '' after adb.Error, a
\* dotted IPv4 address, or an IPv6 address
GroupOwnerAddrLens == { 0, 12, 25 }

\* one line of client output: a bandwidth report in Mbits/sec, the figure in
\* tenths (0.5, 94.1 and 945.0 Mbits/sec), or a line without 'Mbits/sec'
ReportLines ==
    { [ mbits |-> FALSE, tenths |-> 0 ], [ mbits |-> TRUE, tenths |-> 5 ],
      [ mbits |-> TRUE, tenths |-> 941 ], [ mbits |-> TRUE, tenths |-> 9450 ] }

ResultLists == UNION { [ 1..n -> ReportLines ] : n \in 0..MaxReportedLines }

\* result.rfind('Mbits/sec') as the position of the last reporting line; 0
\* stands for "not found" (the code's test is > 0)
LastMbitsSecIndex(result_list) ==
    LET reporting == { i \in 1..Len(result_list) : result_list[i].mbits }
    IN IF reporting = {} THEN 0
       ELSE CHOOSE i \in reporting : \A j \in reporting : j <= i

\* int(float(figure)) then int(speed_mbps * 1024 / 8)
SpeedKbyteSec(result_list) ==
    LET speed_mbps == result_list[LastMbitsSecIndex(result_list)].tenths \div 10
    IN (speed_mbps * 1024) \div 8

\* lines 66-78: the address is read; without one the function returns -1
\* before any server object exists
GetGroupOwnerAddr ==
    /\ iperf.pc = "idle"
    /\ \E len \in GroupOwnerAddrLens :
          iperf' =
            IF len = 0
            THEN [ iperf EXCEPT !.pc = "returned",
                                !.return_value = iperf.speed_kbyte_sec ]
            ELSE [ iperf EXCEPT
                     !.pc = "server.start",
                     !.group_owner_addr_len = len,
                     !.client_arg =
                        IF len > GROUP_OWNER_IPV4_ADDR_LEN_MAX
                        THEN "-t 10 -P1 -6" ELSE DEFAULT_IPV4_CLIENT_ARGS,
                     !.server = NewIPerfServerOnDevice ]
    /\ UNCHANGED << pc, scenario, performance_test_iterations,
                    _current_test_result, _prior_bt_nc_fail_reason,
                    _active_nc_fail_reason, _finished_test_iteration,
                    _use_prior_bt, _test_results,
                    _throughout_benchmark_kbyte_per_sec, prior_bt_snippet,
                    active_snippet, stage_log, iteration_logs, summary,
                    _performance_test_metrics, series, stats,
                    benchmark_inputs, benchmark_result, recording >>

\* lines 80-83: the try block starts the server
ServerStart ==
    /\ iperf.pc = "server.start"
    /\ iperf' = [ iperf EXCEPT !.pc = "run_iperf_client",
                               !.server = IPerfServerOnDevice_start(@) ]
    /\ UNCHANGED << pc, scenario, performance_test_iterations,
                    _current_test_result, _prior_bt_nc_fail_reason,
                    _active_nc_fail_reason, _finished_test_iteration,
                    _use_prior_bt, _test_results,
                    _throughout_benchmark_kbyte_per_sec, prior_bt_snippet,
                    active_snippet, stage_log, iteration_logs, summary,
                    _performance_test_metrics, series, stats,
                    benchmark_inputs, benchmark_result, recording >>

\* lines 84-96: the client runs; it raises AdbError, or returns a success
\* flag and its output, from which the speed is read
RunIperfClient ==
    /\ iperf.pc = "run_iperf_client"
    /\ \/ iperf' = [ iperf EXCEPT !.pc = "except", !.client_raised = TRUE ]
       \/ \E success \in BOOLEAN, result_list \in ResultLists :
             iperf' =
               [ iperf EXCEPT
                   !.pc = "else",
                   !.success = success,
                   !.result_list = result_list,
                   !.speed_kbyte_sec =
                      IF success /\ LastMbitsSecIndex(result_list) > 0
                      THEN SpeedKbyteSec(result_list) ELSE @ ]
    /\ UNCHANGED << pc, scenario, performance_test_iterations,
                    _current_test_result, _prior_bt_nc_fail_reason,
                    _active_nc_fail_reason, _finished_test_iteration,
                    _use_prior_bt, _test_results,
                    _throughout_benchmark_kbyte_per_sec, prior_bt_snippet,
                    active_snippet, stage_log, iteration_logs, summary,
                    _performance_test_metrics, series, stats,
                    benchmark_inputs, benchmark_result, recording >>

\* lines 97-105: the handler of AdbError reads ifconfig on the owner and on
\* the client; adb.shell is not guarded there, so either read may raise, and
\* then run_iperf_test raises.  The server is not touched
ExceptAdbError ==
    /\ iperf.pc = "except"
    /\ \E owner_ifconfig_raises \in BOOLEAN, client_ifconfig_raises \in BOOLEAN :
          iperf' =
            IF owner_ifconfig_raises \/ client_ifconfig_raises
            THEN [ iperf EXCEPT !.pc = "raised" ]
            ELSE [ iperf EXCEPT !.pc = "returned",
                                !.return_value = iperf.speed_kbyte_sec ]
    /\ UNCHANGED << pc, scenario, performance_test_iterations,
                    _current_test_result, _prior_bt_nc_fail_reason,
                    _active_nc_fail_reason, _finished_test_iteration,
                    _use_prior_bt, _test_results,
                    _throughout_benchmark_kbyte_per_sec, prior_bt_snippet,
                    active_snippet, stage_log, iteration_logs, summary,
                    _performance_test_metrics, series, stats,
                    benchmark_inputs, benchmark_result, recording >>

\* lines 106-108: no exception was raised, the server is stopped and the
\* speed returned
ElseServerStop ==
    /\ iperf.pc = "else"
    /\ iperf' = [ iperf EXCEPT !.pc = "returned",
                               !.server = IPerfServerOnDevice_stop(@),
                               !.return_value = iperf.speed_kbyte_sec ]
    /\ UNCHANGED << pc, scenario, performance_test_iterations,
                    _current_test_result, _prior_bt_nc_fail_reason,
                    _active_nc_fail_reason, _finished_test_iteration,
                    _use_prior_bt, _test_results,
                    _throughout_benchmark_kbyte_per_sec, prior_bt_snippet,
                    active_snippet, stage_log, iteration_logs, summary,
                    _performance_test_metrics, series, stats,
                    benchmark_inputs, benchmark_result, recording >>

InitIperf ==
    /\ OrchestratorIdle
    /\ series = NoSeries
    /\ stats = NoStats
    /\ benchmark_inputs = NoBenchmarkInputs
    /\ benchmark_result = NoBenchmarkResult
    /\ iperf = NoIperf
    /\ recording = NoRecording

NextIperf ==
    \/ GetGroupOwnerAddr
    \/ ServerStart
    \/ RunIperfClient
    \/ ExceptAdbError
    \/ ElseServerStop

SpecIperf == InitIperf /\ [][NextIperf]_vars


----------------------------------------------------------------------------
(* Properties of run_iperf_test *)

\* run_iperf_test is over: it returned a value or it raised
IperfFinished == iperf.pc \in { "returned", "raised" }

\* the cases in which there is no valid result: no group owner address, the
\* client raised AdbError, the client reported failure, or no line of its
\* output reports a figure in Mbits/sec
NoValidIperfResult ==
    \/ iperf.group_owner_addr_len = 0
    \/ iperf.client_raised
    \/ ~iperf.success
    \/ \A i \in 1..Len(iperf.result_list) : ~iperf.result_list[i].mbits

\* v is the last reported figure in KB/s: the whole Mbits/sec of the last
\* reporting line, at 1024 / 8 KB/s per Mbit/sec
IsLastFigureInKbyteSec(v) ==
    \E i \in 1..Len(iperf.result_list) :
        /\ iperf.result_list[i].mbits
        /\ \A j \in (i + 1)..Len(iperf.result_list) :
              ~iperf.result_list[j].mbits
        /\ v * 8 <= (iperf.result_list[i].tenths \div 10) * 1024
        /\ (iperf.result_list[i].tenths \div 10) * 1024 < (v + 1) * 8

\* C21: run_iperf_test returns -1 whenever there is no valid result (no group
\* owner address, the client reports failure, no Mbits/sec figure in the
\* output, or the client raises AdbError, which is caught and not
\* propagated), and otherwise returns the last reported figure in KB/s
C21_ReturnsMinusOneOrLastFigure ==
    IperfFinished =>
        /\ iperf.pc = "returned"
        /\ IF NoValidIperfResult
           THEN iperf.return_value = -1
           ELSE IsLastFigureInKbyteSec(iperf.return_value)

\* C30: once run_iperf_test has started the iperf server, the server is
\* stopped (started is False, the subprocess terminated) by the time the
\* function returns or raises, also when the client raised AdbError; and the
\* server object never holds a running subprocess without being started
C30_ServerStoppedOnEveryPath ==
    /\ (IperfFinished /\ iperf.server.constructed) =>
          /\ ~iperf.server.started
          /\ iperf.server.iperf_process = "terminated"
    /\ iperf.server.iperf_process = "running" <=> iperf.server.started


----------------------------------------------------------------------------
(* Shape of the statistics: index, order of the reported values, median *)

\* C28: for a latency or throughput series with at least one measured value,
\* the median index floor(n * 0.5) is a valid index of the filtered list of n
\* values, the reported values satisfy min_val <= median_val <= max_val, and
\* success_count is the number of entries that are not the sentinel.
C28_StatsWellFormed ==
    (stats.called /\ MeasuredPositions # {}) =>
        LET n == Cardinality(MeasuredPositions)
        IN  /\ PercentileIndex(n) \in 0..(n - 1)
            /\ stats.result.min_val <= stats.result.median_val
            /\ stats.result.median_val <= stats.result.max_val
            /\ stats.result.success_count = n
            /\ stats.result.success_count =
                 Len(series.values)
                   - Cardinality(DOMAIN series.values \ MeasuredPositions)

\* throughputs of 300, unset, 100 and 200 KBps: three values are counted and
\* 0.1 <= 0.2 <= 0.3 MB/s are reported as min, median and max
C28_Witness ==
    /\ stats.called
    /\ series.kind = "throughput"
    /\ series.values = << 300, UNSET_THROUGHPUT_KBPS, 100, 200 >>
    /\ stats.result = TestResultStats(3, 1, 2, 3)

\* `tenths` reports the measured value v of the series in its unit
IsReportedAs(v, tenths) ==
    IF series.kind = "latency" THEN IsRoundedLatency(v, tenths)
    ELSE IsKbpsInMbps(v, tenths)

\* C29: for an even number n of measured values the reported median is the
\* worse of the two middle values, the larger of the two middle latencies and
\* the smaller of the two middle throughputs; for an odd n it is the middle
\* value.  The middle values are those at the indices n / 2 - 1 and n / 2 of
\* the ascending order, (n - 1) / 2 for an odd n.
C29_MedianIsWorseMiddle ==
    (stats.called /\ MeasuredPositions # {}) =>
        LET n == Cardinality(MeasuredPositions)
            worse_middle ==
                IF n % 2 = 1 THEN (n - 1) \div 2
                ELSE IF series.kind = "latency" THEN n \div 2
                ELSE n \div 2 - 1
        IN  \E v \in LatencyValues \cup ThroughputValues :
                /\ IsAtAscendingIndex(v, worse_middle)
                /\ IsReportedAs(v, stats.result.median_val)

\* latencies of 10, 40, 20 and 30 seconds: the two middle ones are 20 and 30
\* and the median reported is 30.0
C29_Witness ==
    /\ stats.called
    /\ series.kind = "latency"
    /\ series.values = << 10000, 40000, 20000, 30000 >>
    /\ stats.result.median_val = 300


----------------------------------------------------------------------------
(* video_utils_service.py and bluetooth_base_test.py: the screen recordings
   of a test class.  The test thread runs enable_recording in the set-up of a
   test and hu_recording_handler in its teardown; every
   enable_screen_recording starts a thread that sits in adb.shell until the
   screenrecord command on the device ends *)

MaxRecordedTests == 2         \* tests of one class that run one after another

RecordedDevices == { "hu", "target" }

\* enable_screen_recording: a new thread is started and kept in self.thread;
\* a thread the field held before goes on running without a reference
enable_screen_recording(video) ==
    [ thread |-> "alive",
      abandoned |-> IF video.thread = "alive" THEN video.abandoned + 1
                    ELSE video.abandoned,
      thread_at_pull |-> "not pulled" ]

\* a join that does not wait for the thread
ThreadJoinReturnsAtOnce(thread) == TRUE

\* "if self.thread is not None: self.thread.join()" is passed when there is
\* no thread or the thread has terminated
ThreadJoinReturns(thread) == thread # "alive"

\* the handler goes on with the other recording, or is over
AfterDelete(device) ==
    IF device = "hu" THEN [ pc |-> "stop", device |-> "target" ]
    ELSE [ pc |-> "idle", device |-> "hu" ]

\* a test starts: its set-up calls enable_recording, which starts a recording
\* on the head unit and one on the phone, or fails before it gets there; the
\* teardown, which mobly runs in either case, is next
EnableRecording ==
    /\ recording.pc = "idle"
    /\ recording.tests < MaxRecordedTests
    /\ \E enabled \in BOOLEAN :
          recording' =
            [ pc |-> "stop", device |-> "hu",
              tests |-> recording.tests + 1,
              hu |-> IF enabled THEN enable_screen_recording(recording.hu)
                     ELSE recording.hu,
              target |-> IF enabled
                         THEN enable_screen_recording(recording.target)
                         ELSE recording.target ]
    /\ UNCHANGED << pc, scenario, performance_test_iterations,
                    _current_test_result, _prior_bt_nc_fail_reason,
                    _active_nc_fail_reason, _finished_test_iteration,
                    _use_prior_bt, _test_results,
                    _throughout_benchmark_kbyte_per_sec, prior_bt_snippet,
                    active_snippet, stage_log, iteration_logs, summary,
                    _performance_test_metrics, series, stats,
                    benchmark_inputs, benchmark_result, iperf >>

\* spin: adb.shell of the screenrecord command returns or raises, because of
\* the SIGINT, of the time limit of the command or of adb, and the thread
\* that self.thread refers to terminates
SpinReturns ==
    /\ \E d \in RecordedDevices :
          /\ recording[d].thread = "alive"
          /\ recording' = [ recording EXCEPT ![d].thread = "terminated" ]
    /\ UNCHANGED << pc, scenario, performance_test_iterations,
                    _current_test_result, _prior_bt_nc_fail_reason,
                    _active_nc_fail_reason, _finished_test_iteration,
                    _use_prior_bt, _test_results,
                    _throughout_benchmark_kbyte_per_sec, prior_bt_snippet,
                    active_snippet, stage_log, iteration_logs, summary,
                    _performance_test_metrics, series, stats,
                    benchmark_inputs, benchmark_result, iperf >>

\* the same for a thread no VideoRecording refers to any more
AbandonedSpinReturns ==
    /\ \E d \in RecordedDevices :
          /\ recording[d].abandoned > 0
          /\ recording' = [ recording EXCEPT ![d].abandoned = @ - 1 ]
    /\ UNCHANGED << pc, scenario, performance_test_iterations,
                    _current_test_result, _prior_bt_nc_fail_reason,
                    _active_nc_fail_reason, _finished_test_iteration,
                    _use_prior_bt, _test_results,
                    _throughout_benchmark_kbyte_per_sec, prior_bt_snippet,
                    active_snippet, stage_log, iteration_logs, summary,
                    _performance_test_metrics, series, stats,
                    benchmark_inputs, benchmark_result, iperf >>

\* stop_screen_recording, first half: the stop command is sent with
\* adb.shell; when that raises, the handler and the teardown end there
StopScreenRecordingCommand ==
    /\ recording.pc = "stop"
    /\ \/ recording' = [ recording EXCEPT !.pc = "join" ]
       \/ recording' = [ recording EXCEPT !.pc = "idle", !.device = "hu" ]
    /\ UNCHANGED << pc, scenario, performance_test_iterations,
                    _current_test_result, _prior_bt_nc_fail_reason,
                    _active_nc_fail_reason, _finished_test_iteration,
                    _use_prior_bt, _test_results,
                    _throughout_benchmark_kbyte_per_sec, prior_bt_snippet,
                    active_snippet, stage_log, iteration_logs, summary,
                    _performance_test_metrics, series, stats,
                    benchmark_inputs, benchmark_result, iperf >>

\* stop_screen_recording, second half: the join of self.thread
StopScreenRecordingJoin ==
    /\ recording.pc = "join"
    /\ ThreadJoinReturns(recording[recording.device].thread)
    /\ recording' = [ recording EXCEPT !.pc = "pull" ]
    /\ UNCHANGED << pc, scenario, performance_test_iterations,
                    _current_test_result, _prior_bt_nc_fail_reason,
                    _active_nc_fail_reason, _finished_test_iteration,
                    _use_prior_bt, _test_results,
                    _throughout_benchmark_kbyte_per_sec, prior_bt_snippet,
                    active_snippet, stage_log, iteration_logs, summary,
                    _performance_test_metrics, series, stats,
                    benchmark_inputs, benchmark_result, iperf >>

\* pull_recording_file: adb.pull of the recording, which may raise
PullRecordingFile ==
    /\ recording.pc = "pull"
    /\ LET d == recording.device
           pulled == [ recording EXCEPT
                         ![d].thread_at_pull = recording[d].thread ]
       IN  \/ recording' = [ pulled EXCEPT !.pc = "delete" ]
           \/ recording' = [ pulled EXCEPT !.pc = "idle", !.device = "hu" ]
    /\ UNCHANGED << pc, scenario, performance_test_iterations,
                    _current_test_result, _prior_bt_nc_fail_reason,
                    _active_nc_fail_reason, _finished_test_iteration,
                    _use_prior_bt, _test_results,
                    _throughout_benchmark_kbyte_per_sec, prior_bt_snippet,
                    active_snippet, stage_log, iteration_logs, summary,
                    _performance_test_metrics, series, stats,
                    benchmark_inputs, benchmark_result, iperf >>

\* delete_screen_recording_from_device, after which hu_recording_handler turns
\* to the recording of the phone or returns; adb.shell may raise here too
DeleteScreenRecording ==
    /\ recording.pc = "delete"
    /\ \/ recording' = [ recording EXCEPT
                           !.pc = AfterDelete(recording.device).pc,
                           !.device = AfterDelete(recording.device).device ]
       \/ recording' = [ recording EXCEPT !.pc = "idle", !.device = "hu" ]
    /\ UNCHANGED << pc, scenario, performance_test_iterations,
                    _current_test_result, _prior_bt_nc_fail_reason,
                    _active_nc_fail_reason, _finished_test_iteration,
                    _use_prior_bt, _test_results,
                    _throughout_benchmark_kbyte_per_sec, prior_bt_snippet,
                    active_snippet, stage_log, iteration_logs, summary,
                    _performance_test_metrics, series, stats,
                    benchmark_inputs, benchmark_result, iperf >>

InitRecording ==
    /\ OrchestratorIdle
    /\ series = NoSeries
    /\ stats = NoStats
    /\ benchmark_inputs = NoBenchmarkInputs
    /\ benchmark_result = NoBenchmarkResult
    /\ iperf = NoIperf
    /\ recording = NoRecording

NextRecording ==
    \/ EnableRecording
    \/ SpinReturns
    \/ AbandonedSpinReturns
    \/ StopScreenRecordingCommand
    \/ StopScreenRecordingJoin
    \/ PullRecordingFile
    \/ DeleteScreenRecording

SpecRecording == InitRecording /\ [][NextRecording]_vars

====
